---- MODULE Spec2Model ----
(***************************************************************************)
(* Eolina: tokenizer, token generators, execution context and REPL.        *)
(* Program text is a sequence of one-character strings (bytes; the grammar *)
(* is ASCII).                                                              *)
(***************************************************************************)
EXTENDS Integers, Sequences, FiniteSets, TLC

VARIABLES
    \* tokenizer harness: next_token called on a text and then on each remainder
    tk_pending,     \* the text the next call is given
    tk_input,       \* the text the last call was given
    tk_res,         \* what the last call returned
    tk_called,      \* whether next_token has been called
    \* generator harness: a LazyGen and an EagerGen over the same program
    program,        \* the program text
    lazyGen,           \* the LazyGen
    eager_st,       \* outcome of EagerGen::new(program): "ok", "err" or "panic"
    eagerGen,          \* the EagerGen (when eager_st = "ok")
    lz,             \* history of the LazyGen's calls
    eg,             \* history of the EagerGen's calls
    \* execution harnesses: a Context, the queue it borrows, the I/O done
    ctx,            \* the program Context
    values,         \* the value queue
    io,             \* the calls of the In and Out arms, oldest first
    cx,             \* history of the Context's resumes
    repl,           \* the REPL's loop: phase, lines read, the line, the queue
                    \* and the I/O when it was read
    ex,             \* the dispatch harness: the token, the queue before, the outcome
    \* range harness: one call of as_range, as_usize or slice
    rg,             \* the range, the length, the operation and what it returned
    \* run harness: what the standard input still holds
    stdin,          \* the lines not read yet, each with its line end if it has one
    \* iterator harness: one TokenIter
    it,             \* the iterator, what it yielded and what next() returned last
    \* stored-program harness: one Executor called through run_exec
    xr,             \* the executor, the phase of run_exec and what it returned
    \* run loop: Context::run on the context ctx
    drv,            \* the resumes and the dispatches of the loop, whether it ended
    \* the build
    overflow_checks \* whether integer overflow panics (dev profile) or wraps (release)

tokVars == <<tk_pending, tk_input, tk_res, tk_called>>

genVars == <<program, lazyGen, eager_st, eagerGen, lz, eg>>

runVars == <<ctx, values, io, cx, repl, ex>>

rngVars == <<rg>>

iterVars == <<it, xr, drv>>

vars == <<tokVars, genVars, runVars, rngVars, stdin, iterVars, overflow_checks>>

(***************************************************************************)
(* Bounds of the model.                                                    *)
(***************************************************************************)
\* number of lexemes concatenated into an input of the tokenizer
MaxTokPieces == 2

\* number of lexemes concatenated into a program of the generator harness
MaxGenPieces == 3

\* number of lexemes concatenated into a program of the context harness
MaxCtxPieces == 3

\* length of the queues of the dispatch harness
MaxQueue == 2

\* largest count of a Rotate of the dispatch harness
MaxRotate == 3

\* largest magnitude of an index of the dispatch harness
MaxIndex == 2

\* number of lines the REPL reads
MaxLines == 2

\* length of the strings and lists of the range harness
MaxLen == 3

\* length of the input of the example program
MaxInput == 3

\* calls of next() on one TokenIter
MaxYields == 4

\* calls of a stored program, and iterations of run_exec's loop in all
MaxCalls == 2

MaxSteps == 5

(***************************************************************************)
(* Text helpers (std::str).                                                *)
(***************************************************************************)
Quote == "\""

\* char::is_ascii_whitespace: space, tab, line feed, form feed, carriage return
AsciiWhitespace == {" ", "\t", "\n", "\f", "\r"}

Digits == {"0", "1", "2", "3", "4", "5", "6", "7", "8", "9"}

DigitVal(c) ==
    CASE c = "0" -> 0 [] c = "1" -> 1 [] c = "2" -> 2 [] c = "3" -> 3
      [] c = "4" -> 4 [] c = "5" -> 5 [] c = "6" -> 6 [] c = "7" -> 7
      [] c = "8" -> 8 [] c = "9" -> 9

Drop(s, n) == SubSeq(s, n + 1, Len(s))

Take(s, n) == SubSeq(s, 1, n)

\* length of the longest prefix of s whose characters are all in set
RECURSIVE PrefixLen(_, _)
PrefixLen(s, set) ==
    IF s # <<>> /\ Head(s) \in set THEN 1 + PrefixLen(Tail(s), set) ELSE 0

\* length of the longest suffix of s whose characters are all in set
RECURSIVE SuffixLen(_, _)
SuffixLen(s, set) ==
    IF s # <<>> /\ s[Len(s)] \in set
    THEN 1 + SuffixLen(Take(s, Len(s) - 1), set)
    ELSE 0

\* str::trim_start_matches(|ch| ch.is_ascii_whitespace())
trim_start_matches(s) == Drop(s, PrefixLen(s, AsciiWhitespace))

\* str::trim_matches(|ch| ch.is_ascii_whitespace()): both ends
trim_matches(s) ==
    LET t == trim_start_matches(s)
    IN  Take(t, Len(t) - SuffixLen(t, AsciiWhitespace))

starts_with(s, c) == s # <<>> /\ Head(s) = c

(***************************************************************************)
(* str::parse::<usize>() on a run of decimal digits.                       *)
(***************************************************************************)
\* usize::MAX on a 64-bit target, as decimal digits
UsizeMaxDigits ==
    <<"1","8","4","4","6","7","4","4","0","7","3","7","0","9","5","5","1","6","1","5">>

RECURSIVE DecVal(_)
DecVal(ds) ==
    IF ds = <<>> THEN 0
    ELSE 10 * DecVal(Take(ds, Len(ds) - 1)) + DigitVal(ds[Len(ds)])

\* lexicographic a > b for digit runs of the same length
RECURSIVE DigitsGreater(_, _)
DigitsGreater(a, b) ==
    IF a = <<>> THEN FALSE
    ELSE IF DigitVal(Head(a)) # DigitVal(Head(b))
         THEN DigitVal(Head(a)) > DigitVal(Head(b))
         ELSE DigitsGreater(Tail(a), Tail(b))

\* [ok, val]: Err on the empty string and on overflow of usize
parse_usize(ds) ==
    LET sig == Drop(ds, PrefixLen(ds, {"0"}))
        overflow == \/ Len(sig) > Len(UsizeMaxDigits)
                    \/ /\ Len(sig) = Len(UsizeMaxDigits)
                       /\ DigitsGreater(sig, UsizeMaxDigits)
    IN  IF ds = <<>> \/ overflow
        THEN [ok |-> FALSE, val |-> 0]
        ELSE [ok |-> TRUE, val |-> DecVal(sig)]

(***************************************************************************)
(* usize and isize (64 bits).  A number is big * 2^63 + n with n of small  *)
(* magnitude: this reaches the values around 0, isize::MAX and usize::MAX, *)
(* where the casts and the arithmetic of helper/range.rs change behaviour. *)
(***************************************************************************)
Num(big, n) == [big |-> big, n |-> n]

NumAdd(x, y) == Num(x.big + y.big, x.n + y.n)

NumNeg(x) == Num(0 - x.big, 0 - x.n)

NumLe(x, y) == x.big < y.big \/ (x.big = y.big /\ x.n <= y.n)

\* isize::MIN
IsizeMin == Num(0 - 1, 0)

\* isize::MAX
IsizeMax == Num(1, 0 - 1)

\* usize::MAX
UsizeMax == Num(2, 0 - 1)

\* whether x is a value of isize
InIsize(x) == NumLe(IsizeMin, x) /\ NumLe(x, IsizeMax)

\* `x as isize` for a usize x: the two's complement reading of the same bits
usize_as_isize(x) == IF NumLe(x, IsizeMax) THEN x ELSE NumAdd(x, Num(0 - 2, 0))

\* an isize sum or difference that left the range, wrapped (release profile)
wrapping(x) ==
    IF ~NumLe(x, IsizeMax) THEN NumAdd(x, Num(0 - 2, 0))
    ELSE IF ~NumLe(IsizeMin, x) THEN NumAdd(x, Num(2, 0))
    ELSE x

\* the result of an isize operation: a panic when it overflows and the build
\* checks overflow, the wrapped value otherwise
Arith(x) == [panic |-> ~InIsize(x) /\ overflow_checks, val |-> wrapping(x)]

(***************************************************************************)
(* Tokens (parse/token.rs, helper/range.rs).                               *)
(***************************************************************************)
\* Option<EolinaIndex>: None
NoIndex == [some |-> FALSE, back |-> FALSE, n |-> Num(0, 0)]

\* from_components through a signed integer, which has no -0
from_components_signed(from_back, value) ==
    [some |-> TRUE, back |-> from_back /\ value # Num(0, 0), n |-> value]

\* EolinaIndex::from_components(from_back, value), wrapped in Some
from_components(from_back, value) ==
    [some |-> TRUE, back |-> from_back, n |-> value]

\* a token without payload
Tok(t) ==
    [t |-> t, num |-> 0, some |-> FALSE, lit |-> <<>>, kind |-> "",
     start |-> NoIndex, end |-> NoIndex]

RotateTok(n) == [Tok("Rotate") EXCEPT !.num = n]

SplitTok(some, lit) == [Tok("Split") EXCEPT !.some = some, !.lit = lit]

MapTok(k) == [Tok("Map") EXCEPT !.kind = k]

FilterTok(k) == [Tok("Filter") EXCEPT !.kind = k]

\* Token::Slice(EolinaRange::components(start, end))
SliceTok(start, end) == [Tok("Slice") EXCEPT !.start = start, !.end = end]

IndexTok(idx) == [Tok("Index") EXCEPT !.start = idx]

\* Ok with a length one byte longer than the branch computed
TokOk_long(rest, tok, len) ==
    [st |-> "ok", rest |-> rest, tok |-> tok, len |-> len + 1, err |-> "", text |-> <<>>]

(***************************************************************************)
(* next_token (parse/token.rs).                                            *)
(***************************************************************************)
TokOk(rest, tok, len) ==
    [st |-> "ok", rest |-> rest, tok |-> tok, len |-> len, err |-> "", text |-> <<>>]

TokErr(err, text) ==
    [st |-> "err", rest |-> <<>>, tok |-> Tok("None"), len |-> 0, err |-> err,
     text |-> text]

TokPanic ==
    [st |-> "panic", rest |-> <<>>, tok |-> Tok("None"), len |-> 0, err |-> "",
     text |-> <<>>]

\* the whitespace length next_token adds to every token length
tirmlen == 0

SingleName(c) ==
    CASE c = "<" -> "In" [] c = ">" -> "Out" [] c = "." -> "Join"
      [] c = "~" -> "Concat" [] c = "*" -> "Copy" [] c = "v" -> "IsVowel"
      [] c = "c" -> "IsConso" [] c = "_" -> "IsLower" [] c = "^" -> "IsUpper"

SingleChars == {"<", ">", ".", "~", "*", "v", "c", "_", "^"}

MapName(c) == CASE c = "_" -> "Lower" [] c = "^" -> "Upper" [] c = "%" -> "Swap"

CheckName(c) ==
    CASE c = "v" -> "Vowel" [] c = "c" -> "Conso" [] c = "_" -> "Lower"
      [] c = "^" -> "Upper"

\* nom results: [ok, rest, ...]
NomFail == [ok |-> FALSE, rest |-> <<>>, some |-> FALSE, sign |-> FALSE, out |-> <<>>]

\* pair(tag("@"), digit0)
double_parser(input) ==
    IF starts_with(input, "@")
    THEN LET n == PrefixLen(Tail(input), Digits)
         IN  [NomFail EXCEPT !.ok = TRUE, !.out = Take(Tail(input), n),
                             !.rest = Drop(Tail(input), n)]
    ELSE NomFail

\* delimited(tag("\""), take_till(|ch| matches!(ch, '"' | '/')), tag("\""))
quoted_parser(input) ==
    IF starts_with(input, Quote)
    THEN LET body == Tail(input)
             n == PrefixLen(body, {body[i] : i \in 1..Len(body)} \ {Quote, "/"})
         IN  IF starts_with(Drop(body, n), Quote)
             THEN [NomFail EXCEPT !.ok = TRUE, !.out = Take(body, n),
                                  !.rest = Drop(body, n + 1)]
             ELSE NomFail
    ELSE NomFail

\* delimited(tag("/"), opt(quoted), tag("/"))
split_parser(input) ==
    IF starts_with(input, "/")
    THEN LET q == quoted_parser(Tail(input))
             after == IF q.ok THEN q.rest ELSE Tail(input)
         IN  IF starts_with(after, "/")
             THEN [NomFail EXCEPT !.ok = TRUE, !.some = q.ok, !.out = q.out,
                                  !.rest = Tail(after)]
             ELSE NomFail
    ELSE NomFail

\* delimited(tag(open), alt(tags in inner), tag(close))
delimited_one(input, open, inner, close) ==
    IF /\ Len(input) >= 3
       /\ input[1] = open
       /\ input[2] \in inner
       /\ input[3] = close
    THEN [NomFail EXCEPT !.ok = TRUE, !.out = <<input[2]>>, !.rest = Drop(input, 3)]
    ELSE NomFail

\* opt(pair(opt(tag("-")), digit1)): some = FALSE when the pair does not match
bound_parser(input) ==
    LET sign == starts_with(input, "-")
        after == IF sign THEN Tail(input) ELSE input
        n == PrefixLen(after, Digits)
    IN  IF n >= 1
        THEN [NomFail EXCEPT !.ok = TRUE, !.some = TRUE, !.sign = sign,
                             !.out = Take(after, n), !.rest = Drop(after, n)]
        ELSE [NomFail EXCEPT !.ok = TRUE, !.rest = input]

\* delimited(tag("|"), separated_pair(bound, tag("."), bound), tag("|"))
slice_parser(input) ==
    IF starts_with(input, "|")
    THEN LET first == bound_parser(Tail(input))
         IN  IF starts_with(first.rest, ".")
             THEN LET second == bound_parser(Tail(first.rest))
                  IN  IF starts_with(second.rest, "|")
                      THEN [ok |-> TRUE, first |-> first, second |-> second,
                            rest |-> Tail(second.rest)]
                      ELSE [ok |-> FALSE, first |-> NomFail, second |-> NomFail,
                            rest |-> <<>>]
             ELSE [ok |-> FALSE, first |-> NomFail, second |-> NomFail, rest |-> <<>>]
    ELSE [ok |-> FALSE, first |-> NomFail, second |-> NomFail, rest |-> <<>>]

\* the closure `counter` of the slice branch
counter(b) == IF b.some THEN Len(b.out) + (IF b.sign THEN 1 ELSE 0) ELSE 0

\* the closure `parser` of the slice branch, mapped over the Option
bound_index(b) ==
    IF b.some THEN from_components(b.sign, Num(0, parse_usize(b.out).val)) ELSE NoIndex

\* num.parse().expect("combinator must fail") panics when the digits overflow
bound_panics(b) == b.some /\ ~parse_usize(b.out).ok

next_token(raw) ==
    LET input == trim_start_matches(raw)
        dbl == double_parser(input)
        spl == split_parser(input)
        mp == delimited_one(input, "{", {"_", "^", "%"}, "}")
        flt == delimited_one(input, "[", {"v", "c", "_", "^"}, "]")
        slc == slice_parser(input)
    IN  IF input = <<>> THEN TokErr("Empty", <<>>)
        ELSE IF Head(input) \in SingleChars
        THEN TokOk(Tail(input), Tok(SingleName(Head(input))), tirmlen + 1)
        ELSE IF dbl.ok
        THEN TokOk(dbl.rest,
                   RotateTok(IF parse_usize(dbl.out).ok
                             THEN parse_usize(dbl.out).val ELSE 1),
                   tirmlen + 1 + Len(dbl.out))
        ELSE IF spl.ok
        THEN TokOk(spl.rest, SplitTok(spl.some, spl.out),
                   tirmlen + (IF spl.some THEN Len(spl.out) + 2 ELSE 2))
        ELSE IF mp.ok
        THEN TokOk(mp.rest, MapTok(MapName(mp.out[1])), tirmlen + 3)
        ELSE IF flt.ok
        THEN TokOk(flt.rest, FilterTok(CheckName(flt.out[1])), tirmlen + 3)
        ELSE IF slc.ok
        THEN IF bound_panics(slc.first) \/ bound_panics(slc.second)
             THEN TokPanic
             ELSE TokOk(slc.rest,
                        SliceTok(bound_index(slc.first), bound_index(slc.second)),
                        tirmlen + 3 + counter(slc.first) + counter(slc.second))
        ELSE TokErr("Unknown", input)

(***************************************************************************)
(* Display of tokens (parse/token.rs, helper/range.rs).                    *)
(***************************************************************************)
\* <usize as Display>::fmt, for the numbers below 2^31
RECURSIVE usize_fmt(_)
usize_fmt(num) ==
    LET digit(d) == CHOOSE c \in Digits : DigitVal(c) = d
    IN  IF num < 10 THEN <<digit(num)>>
        ELSE usize_fmt(num \div 10) \o <<digit(num % 10)>>

\* <EolinaIndex as Display>::fmt
EolinaIndex_fmt(idx) ==
    IF idx.back THEN <<"-">> \o usize_fmt(idx.n.n) ELSE usize_fmt(idx.n.n)

\* <EolinaRange as Display>::fmt
EolinaRange_fmt(range) ==
    <<"|">> \o (IF range.start.some THEN EolinaIndex_fmt(range.start) ELSE <<>>)
        \o <<".">> \o (IF range.end.some THEN EolinaIndex_fmt(range.end) ELSE <<>>)
        \o <<"|">>

\* <Token as Display>::fmt
Token_fmt(tok) ==
    CASE tok.t = "In" -> <<"<">>
      [] tok.t = "Out" -> <<">">>
      [] tok.t = "Split" -> IF tok.some THEN <<"/">> \o tok.lit \o <<"/">>
                            ELSE <<"/", "/">>
      [] tok.t = "Join" -> <<".">>
      [] tok.t = "Concat" -> <<"~">>
      [] tok.t = "Copy" -> <<"*">>
      [] tok.t = "IsVowel" -> <<"v">>
      [] tok.t = "IsConso" -> <<"c">>
      [] tok.t = "Rotate" -> <<"@">> \o usize_fmt(tok.num)
      [] tok.t = "IsUpper" -> <<"^">>
      [] tok.t = "IsLower" -> <<"_">>
      [] tok.t = "Map" ->
            <<"{", CHOOSE c \in {"_", "^", "%"} : MapName(c) = tok.kind, "}">>
      [] tok.t = "Filter" ->
            <<"[", CHOOSE c \in {"v", "c", "_", "^"} : CheckName(c) = tok.kind, "]">>
      [] tok.t = "Slice" -> EolinaRange_fmt([start |-> tok.start, end |-> tok.end])

(***************************************************************************)
(* Token generators (parse/gen.rs).                                        *)
(***************************************************************************)
\* GeneratorState of a resume, with the generator as it is left
GenYielded(g, tok, len) ==
    [gen |-> g, k |-> "Yielded", tok |-> tok, len |-> len, err |-> "", text |-> <<>>]

GenComplete(g, err, text) ==
    [gen |-> g, k |-> IF err = "" THEN "CompleteOk" ELSE "CompleteErr",
     tok |-> Tok("None"), len |-> 0, err |-> err, text |-> text]

GenPanic(g) ==
    [gen |-> g, k |-> "Panic", tok |-> Tok("None"), len |-> 0, err |-> "",
     text |-> <<>>]

\* LazyGen::new
LazyGen_new(input) ==
    [kind |-> "lazy", program |-> input, remaining |-> input, completed |-> FALSE,
     yield_at |-> 0, tokens |-> <<>>]

\* <LazyGen as Generator>::resume
LazyGen_resume(this) ==
    IF this.completed THEN GenPanic(this)
    ELSE IF this.remaining = <<>>
    THEN GenComplete([this EXCEPT !.completed = TRUE], "", <<>>)
    ELSE CHOOSE state \in
             { CASE r.st = "ok" ->
                      GenYielded([this EXCEPT !.remaining = trim_matches(r.rest)],
                                 r.tok, r.len)
                 [] r.st = "err" -> GenComplete(this, r.err, r.text)
                 [] r.st = "panic" -> GenPanic(this) :
               r \in {next_token(this.remaining)} } : TRUE

\* reset() that leaves the remaining slice where it is
LazyGen_reset_noop(this) == this

\* <LazyGen as Gen>::reset
LazyGen_reset(this) == [this EXCEPT !.remaining = this.program]

\* the pair a Yielded resume carries
Yielded(r) == [tok |-> r.tok, len |-> r.len]

\* EagerGen::new when lazy completed with r: res? and break
EagerGen_complete(r, tokens) ==
    CASE r.k = "CompleteOk" -> [st |-> "ok", tokens |-> tokens, err |-> "", text |-> <<>>]
      [] r.k = "CompleteErr" ->
           [st |-> "err", tokens |-> <<>>, err |-> r.err, text |-> r.text]
      [] r.k = "Panic" -> [st |-> "panic", tokens |-> <<>>, err |-> "", text |-> <<>>]

\* the loop of EagerGen::new: drives lazy until it completes
RECURSIVE EagerGen_collect(_, _)
EagerGen_collect(lazy, tokens) ==
    CHOOSE built \in
        { IF res.k = "Yielded"
          THEN EagerGen_collect(res.gen, Append(tokens, Yielded(res)))
          ELSE EagerGen_complete(res, tokens) : res \in {LazyGen_resume(lazy)} } : TRUE

\* EagerGen::new: [st, gen, err, text]; gen is meaningful when st = "ok"
EagerGen_built(input, c) ==
    [st |-> c.st, err |-> c.err, text |-> c.text,
     gen |-> [kind |-> "eager", program |-> input, remaining |-> <<>>,
              completed |-> FALSE, yield_at |-> 0, tokens |-> c.tokens]]

\* EagerGen::new: the loop, then Self { tokens, yield_at: 0 }
EagerGen_new(input) ==
    CHOOSE built \in
        { EagerGen_built(input, c) : c \in {EagerGen_collect(LazyGen_new(input), <<>>)} } :
        TRUE

\* resume() that completes one token early
EagerGen_resume_early(this) ==
    IF this.yield_at + 1 >= Len(this.tokens) THEN GenComplete(this, "", <<>>)
    ELSE LET yielded == this.tokens[this.yield_at + 1]
         IN  GenYielded([this EXCEPT !.yield_at = this.yield_at + 1],
                        yielded.tok, yielded.len)

\* resume() that moves the cursor when it completes
EagerGen_resume_past(this) ==
    IF this.yield_at > Len(this.tokens) THEN GenPanic(this)
    ELSE IF this.yield_at = Len(this.tokens)
    THEN GenComplete([this EXCEPT !.yield_at = this.yield_at + 1], "", <<>>)
    ELSE LET yielded == this.tokens[this.yield_at + 1]
         IN  GenYielded([this EXCEPT !.yield_at = this.yield_at + 1],
                        yielded.tok, yielded.len)

\* <EagerGen as Generator>::resume
EagerGen_resume(this) ==
    IF this.yield_at > Len(this.tokens) THEN GenPanic(this)
    ELSE IF this.yield_at = Len(this.tokens) THEN GenComplete(this, "", <<>>)
    ELSE LET yielded == this.tokens[this.yield_at + 1]
         IN  GenYielded([this EXCEPT !.yield_at = this.yield_at + 1],
                        yielded.tok, yielded.len)

\* <EagerGen as Gen>::reset
EagerGen_reset(this) == [this EXCEPT !.yield_at = 0]

\* dynamic dispatch over G: Gen
Gen_resume(g) == IF g.kind = "lazy" THEN LazyGen_resume(g) ELSE EagerGen_resume(g)

Gen_reset(g) == IF g.kind = "lazy" THEN LazyGen_reset(g) ELSE EagerGen_reset(g)

(***************************************************************************)
(* Values and errors (program/value.rs, program/context.rs, program/func.rs,*)
(* helper/range.rs).                                                       *)
(***************************************************************************)
\* Value::String
String(s) == [kind |-> "String", str |-> s, vec |-> <<>>, b |-> FALSE]

\* Value::StringVec
StringVec(v) == [kind |-> "StringVec", str |-> <<>>, vec |-> v, b |-> FALSE]

\* Value::Bool
Bool(b) == [kind |-> "Bool", str |-> <<>>, vec |-> <<>>, b |-> b]

\* concatenation of the strings of vec, in order
RECURSIVE Flatten(_)
Flatten(vec) == IF vec = <<>> THEN <<>> ELSE Head(vec) \o Flatten(Tail(vec))

\* <Value as Display>::fmt
Display(v) ==
    CASE v.kind = "String" -> v.str
      [] v.kind = "Bool" ->
            IF v.b THEN <<"t", "r", "u", "e">> ELSE <<"f", "a", "l", "s", "e">>
      [] v.kind = "StringVec" ->
            IF v.vec = <<>> THEN <<>>
            ELSE v.vec[1] \o <<"\n">>
                 \o Flatten([i \in 1..(Len(v.vec) - 1) |-> <<" ">> \o v.vec[i + 1]])

NoRange == [start |-> NoIndex, end |-> NoIndex]

\* an error value; the fields a variant does not carry keep these defaults
Error(e) ==
    [e |-> e, n |-> 0, len |-> 0, expected |-> <<>>, actual |-> "", left |-> "",
     right |-> "", text |-> <<>>, given |-> NoRange,
     abs |-> NoRange, pos |-> Num(0, 0)]

NoError == Error("None")

\* Error::QueueTooShort(N, self.values.len())
QueueTooShort(n, len) == [Error("QueueTooShort") EXCEPT !.n = n, !.len = len]

\* Error::ArgMismatch(ArgMismatchError::new(expected, actual))
ArgMismatch(expected, actual) ==
    [Error("ArgMismatch") EXCEPT !.expected = expected, !.actual = actual]

\* Error::Mismatch(left, right)
Mismatch(left, right) == [Error("Mismatch") EXCEPT !.left = left, !.right = right]

\* RangeError::OutOfTargetRange(given, abs, (0..len).into())
OutOfTargetRange(given, abs, len) ==
    [Error("OutOfTargetRange") EXCEPT !.given = given, !.abs = abs, !.len = len]

\* RangeError::IncompatibleBounds(abs, (0..len).into())
IncompatibleBounds(abs, len) ==
    [Error("IncompatibleBounds") EXCEPT !.abs = abs, !.len = len]

\* IndexError::OutOfTargetRange(index, pos, len)
IndexOutOfTargetRange(idx, pos, len) ==
    [Error("IndexOutOfTargetRange") EXCEPT !.given = [NoRange EXCEPT !.start = idx],
                                           !.pos = pos, !.len = len]

\* parse::Error::Empty and parse::Error::Unknown(text), as the generator returns them
ParseError(err, text) == [Error("Parse") EXCEPT !.actual = err, !.text = text]

\* std::io::Error of a failed read
IoError == Error("Io")

(***************************************************************************)
(* ASCII helpers (helper/ascii.rs).                                        *)
(***************************************************************************)
LowerLetters ==
    <<"a", "b", "c", "d", "e", "f", "g", "h", "i", "j", "k", "l", "m",
      "n", "o", "p", "q", "r", "s", "t", "u", "v", "w", "x", "y", "z">>

UpperLetters ==
    <<"A", "B", "C", "D", "E", "F", "G", "H", "I", "J", "K", "L", "M",
      "N", "O", "P", "Q", "R", "S", "T", "U", "V", "W", "X", "Y", "Z">>

\* position of ch in letters, 0 if it is not one of them
LetterIndex(ch, letters) ==
    IF \E i \in DOMAIN letters : letters[i] = ch
    THEN CHOOSE i \in DOMAIN letters : letters[i] = ch
    ELSE 0

\* <char as AsciiExt>::is_lower
char_is_lower(ch) == LetterIndex(ch, LowerLetters) # 0

\* <char as AsciiExt>::is_upper
char_is_upper(ch) == LetterIndex(ch, UpperLetters) # 0

\* <char as AsciiExt>::is_vowel
char_is_vowel(ch) == ch \in {"a", "e", "i", "o", "u", "A", "E", "I", "O", "U"}

\* the ranges b..=d, f..=h, j..=n, p..=t, v..=z as positions in the alphabet
ConsoPositions == (2..4) \cup (6..8) \cup (10..14) \cup (16..20) \cup (22..26)

\* <char as AsciiExt>::is_conso
char_is_conso(ch) ==
    \/ LetterIndex(ch, LowerLetters) \in ConsoPositions
    \/ LetterIndex(ch, UpperLetters) \in ConsoPositions

\* <char as AsciiExt>::into_upper
char_into_upper(ch) ==
    IF char_is_lower(ch) THEN UpperLetters[LetterIndex(ch, LowerLetters)] ELSE ch

\* <char as AsciiExt>::into_lower
char_into_lower(ch) ==
    IF char_is_upper(ch) THEN LowerLetters[LetterIndex(ch, UpperLetters)] ELSE ch

\* <char as AsciiExt>::into_swap
char_into_swap(ch) ==
    IF char_is_upper(ch) THEN char_into_lower(ch)
    ELSE IF char_is_lower(ch) THEN char_into_upper(ch)
    ELSE ch

\* a check of CheckToken on one char
char_check(ch, check) ==
    CASE check = "Vowel" -> char_is_vowel(ch)
      [] check = "Conso" -> char_is_conso(ch)
      [] check = "Upper" -> char_is_upper(ch)
      [] check = "Lower" -> char_is_lower(ch)

\* <String as AsciiExt>::is_vowel, is_conso, is_upper, is_lower: chars().all(..)
string_check(s, check) == \A i \in 1..Len(s) : char_check(s[i], check)

\* <String as AsciiExt>::into_lower, into_upper, into_swap on ASCII text
string_map(s, map_kind) ==
    [i \in 1..Len(s) |->
        CASE map_kind = "Lower" -> char_into_lower(s[i])
          [] map_kind = "Upper" -> char_into_upper(s[i])
          [] map_kind = "Swap" -> char_into_swap(s[i])]

(***************************************************************************)
(* Relative indices and ranges (helper/range.rs).                          *)
(***************************************************************************)
\* EolinaIndex::as_isize: `*idx as isize`, negated for End
as_isize(idx) ==
    IF idx.back THEN Arith(NumNeg(usize_as_isize(idx.n)))
    ELSE Arith(usize_as_isize(idx.n))

\* the position an as_usize error carries: as_isize() for Start,
\* `len as isize + self.as_isize()` for End
as_usize_abs(idx, len) ==
    IF idx.back
    THEN [panic |-> as_isize(idx).panic
                    \/ Arith(NumAdd(Num(0, len), as_isize(idx).val)).panic,
          val |-> Arith(NumAdd(Num(0, len), as_isize(idx).val)).val]
    ELSE as_isize(idx)

\* EolinaIndex::as_usize: Ok(val), Err(err) or a panic
as_usize(idx, len) ==
    IF NumLe(idx.n, Num(0, len))
    THEN [ok |-> TRUE, panic |-> FALSE,
          val |-> IF idx.back THEN len - idx.n.n ELSE idx.n.n, err |-> NoError]
    ELSE [ok |-> FALSE, panic |-> as_usize_abs(idx, len).panic, val |-> 0,
          err |-> IndexOutOfTargetRange(idx, as_usize_abs(idx, len).val, len)]

\* idx_map of as_range: the bound as an absolute isize
idx_map(idx, len) ==
    IF idx.back THEN Arith(NumAdd(Num(0, len), NumNeg(usize_as_isize(idx.n))))
    ELSE Arith(usize_as_isize(idx.n))

\* abs_check_map of as_range, on an optional bound with its default
abs_bound(bound, len, default) ==
    IF bound.some
    THEN [ok |-> /\ NumLe(Num(0, 0), idx_map(bound, len).val)
                 /\ NumLe(idx_map(bound, len).val, Num(0, len)),
          panic |-> idx_map(bound, len).panic,
          val |-> idx_map(bound, len).val]
    ELSE [ok |-> TRUE, panic |-> FALSE, val |-> Num(0, default)]

\* <EolinaIndex as From<isize>>::from: End(int.abs()) for a negative int;
\* abs() overflows on isize::MIN
from_isize(int) ==
    IF NumLe(int, Num(0, 0 - 1))
    THEN [panic |-> int = IsizeMin /\ overflow_checks,
          idx |-> from_components(TRUE, IF int = IsizeMin THEN Num(1, 0)
                                        ELSE NumNeg(int))]
    ELSE [panic |-> FALSE, idx |-> from_components(FALSE, int)]

\* <EolinaRange as From<Range<isize>>>::from
from_range(lower, upper) ==
    [panic |-> from_isize(lower).panic \/ from_isize(upper).panic,
     range |-> [start |-> from_isize(lower).idx, end |-> from_isize(upper).idx]]

\* the result of as_range: Ok(lower..upper), Err(err) or a panic
RangeRes(ok, panic, lower, upper, err) ==
    [ok |-> ok, panic |-> panic, lower |-> lower, upper |-> upper, err |-> err]

\* EolinaRange::as_range
as_range(range, len) ==
    LET abs_lower == abs_bound(range.start, len, 0)
        abs_upper == abs_bound(range.end, len, len)
    IN  IF abs_lower.panic \/ abs_upper.panic
        THEN RangeRes(FALSE, TRUE, 0, 0, NoError)
        ELSE IF from_range(abs_lower.val, abs_upper.val).panic
                /\ (~abs_lower.ok \/ ~abs_upper.ok)
        THEN RangeRes(FALSE, TRUE, 0, 0, NoError)
        ELSE IF ~abs_lower.ok \/ ~abs_upper.ok
        THEN RangeRes(FALSE, FALSE, 0, 0,
                      OutOfTargetRange(range,
                                       from_range(abs_lower.val, abs_upper.val).range,
                                       len))
        ELSE IF ~NumLe(abs_lower.val, abs_upper.val)
        THEN RangeRes(FALSE, FALSE, 0, 0,
                      IncompatibleBounds(from_range(abs_lower.val, abs_upper.val).range,
                                         len))
        ELSE RangeRes(TRUE, FALSE, abs_lower.val.n, abs_upper.val.n, NoError)

(***************************************************************************)
(* Function library (program/func.rs).                                     *)
(***************************************************************************)
FnOk(v) == [ok |-> TRUE, panic |-> FALSE, val |-> v, err |-> NoError]

FnErr(err) == [ok |-> FALSE, panic |-> FALSE, val |-> Bool(FALSE), err |-> err]

\* the function panicked
FnPanic == [ok |-> FALSE, panic |-> TRUE, val |-> Bool(FALSE), err |-> NoError]

\* start of the first match of the non-empty pat in s, 0 if there is none
FirstMatch(s, pat) ==
    LET hits == {i \in 1..(Len(s) - Len(pat) + 1) : SubSeq(s, i, i + Len(pat) - 1) = pat}
    IN  IF hits = {} THEN 0 ELSE CHOOSE i \in hits : \A j \in hits : i <= j

\* str::split(pat) for a non-empty pat
RECURSIVE str_split_by(_, _)
str_split_by(s, pat) ==
    IF FirstMatch(s, pat) = 0 THEN <<s>>
    ELSE <<Take(s, FirstMatch(s, pat) - 1)>>
         \o str_split_by(Drop(s, FirstMatch(s, pat) - 1 + Len(pat)), pat)

\* str::split(pat): the empty pat matches at every char boundary
str_split(s, pat) ==
    IF pat = <<>>
    THEN <<<<>>>> \o [i \in 1..Len(s) |-> <<s[i]>>] \o <<<<>>>>
    ELSE str_split_by(s, pat)

\* func::split
split(input, some, lit) ==
    IF input.kind # "String" THEN FnErr(ArgMismatch(<<"String">>, input.kind))
    ELSE IF some
    THEN FnOk(StringVec(SelectSeq(str_split(input.str, lit), LAMBDA f : f # <<>>)))
    ELSE FnOk(StringVec([i \in 1..Len(input.str) |-> <<input.str[i]>>]))

\* func::join
join(input) ==
    IF input.kind # "StringVec" THEN FnErr(ArgMismatch(<<"StringVec">>, input.kind))
    ELSE FnOk(String(Flatten(input.vec)))

\* concat appending the first operand to the second
concat_swapped(input1, input2) ==
    IF input1.kind = "String" /\ input2.kind = "String"
    THEN FnOk(String(input2.str \o input1.str))
    ELSE IF input1.kind = "StringVec" /\ input2.kind = "StringVec"
    THEN FnOk(StringVec(input2.vec \o input1.vec))
    ELSE IF input2.kind = "Bool"
    THEN FnErr(ArgMismatch(<<"String", "StringVec">>, input1.kind))
    ELSE IF input1.kind = "Bool"
    THEN FnErr(ArgMismatch(<<"String", "StringVec">>, input2.kind))
    ELSE FnErr(Mismatch(input1.kind, input2.kind))

\* concat reporting every pair of different kinds as an argument mismatch
concat_arg_mismatch(input1, input2) ==
    IF input1.kind = "String" /\ input2.kind = "String"
    THEN FnOk(String(input1.str \o input2.str))
    ELSE IF input1.kind = "StringVec" /\ input2.kind = "StringVec"
    THEN FnOk(StringVec(input1.vec \o input2.vec))
    ELSE IF input2.kind = "Bool"
    THEN FnErr(ArgMismatch(<<"String", "StringVec">>, input1.kind))
    ELSE FnErr(ArgMismatch(<<"String", "StringVec">>, input2.kind))

\* func::concat
concat(input1, input2) ==
    IF input1.kind = "String" /\ input2.kind = "String"
    THEN FnOk(String(input1.str \o input2.str))
    ELSE IF input1.kind = "StringVec" /\ input2.kind = "StringVec"
    THEN FnOk(StringVec(input1.vec \o input2.vec))
    ELSE IF input2.kind = "Bool"
    THEN FnErr(ArgMismatch(<<"String", "StringVec">>, input1.kind))
    ELSE IF input1.kind = "Bool"
    THEN FnErr(ArgMismatch(<<"String", "StringVec">>, input2.kind))
    ELSE FnErr(Mismatch(input1.kind, input2.kind))

\* func::__check_all with the check of is_vowel, is_conso, is_upper, is_lower
check_all(input, check) ==
    CASE input.kind = "String" -> FnOk(Bool(string_check(input.str, check)))
      [] input.kind = "StringVec" ->
            FnOk(Bool(\A i \in 1..Len(input.vec) : string_check(input.vec[i], check)))
      [] OTHER -> FnErr(ArgMismatch(<<"String", "StringVec">>, input.kind))

\* func::map
map(input, map_kind) ==
    CASE input.kind = "String" -> FnOk(String(string_map(input.str, map_kind)))
      [] input.kind = "StringVec" ->
            FnOk(StringVec([i \in 1..Len(input.vec) |-> string_map(input.vec[i], map_kind)]))
      [] OTHER -> FnErr(ArgMismatch(<<"String", "StringVec">>, input.kind))

\* filter keeping every char of a String
filter_kept(input, check) ==
    CASE input.kind = "String" -> FnOk(input)
      [] input.kind = "StringVec" ->
            FnOk(StringVec(SelectSeq(input.vec, LAMBDA s : string_check(s, check))))
      [] OTHER -> FnErr(ArgMismatch(<<"String", "StringVec">>, input.kind))

\* func::filter
filter(input, check) ==
    CASE input.kind = "String" ->
            FnOk(String(SelectSeq(input.str, LAMBDA ch : char_check(ch, check))))
      [] input.kind = "StringVec" ->
            FnOk(StringVec(SelectSeq(input.vec, LAMBDA s : string_check(s, check))))
      [] OTHER -> FnErr(ArgMismatch(<<"String", "StringVec">>, input.kind))

\* Value::unwrap_len
unwrap_len(input) ==
    CASE input.kind = "String" -> [ok |-> TRUE, val |-> Len(input.str), err |-> NoError]
      [] input.kind = "StringVec" -> [ok |-> TRUE, val |-> Len(input.vec), err |-> NoError]
      [] OTHER -> [ok |-> FALSE, val |-> 0, err |-> ArgMismatch(<<"String">>, input.kind)]

\* the length func::slice resolves the range against
slice_len(input) == IF input.kind = "String" THEN Len(input.str) ELSE Len(input.vec)

\* func::slice
slice(input, range) ==
    IF input.kind \notin {"String", "StringVec"}
    THEN FnErr(ArgMismatch(<<"String">>, input.kind))
    ELSE IF as_range(range, slice_len(input)).panic THEN FnPanic
    ELSE IF ~as_range(range, slice_len(input)).ok
    THEN FnErr(as_range(range, slice_len(input)).err)
    ELSE IF input.kind = "String"
    THEN FnOk(String(SubSeq(input.str, as_range(range, Len(input.str)).lower + 1,
                            as_range(range, Len(input.str)).upper)))
    ELSE FnOk(StringVec(SubSeq(input.vec, as_range(range, Len(input.vec)).lower + 1,
                               as_range(range, Len(input.vec)).upper)))

\* func::index: the element at the resolved index, as a String
index(input, idx) ==
    IF input.kind \notin {"String", "StringVec"}
    THEN FnErr(ArgMismatch(<<"String", "StringVec">>, input.kind))
    ELSE IF as_usize(idx, slice_len(input)).panic THEN FnPanic
    ELSE IF ~as_usize(idx, slice_len(input)).ok
    THEN FnErr(as_usize(idx, slice_len(input)).err)
    ELSE IF as_usize(idx, slice_len(input)).val >= slice_len(input)
    THEN FnErr(IndexOutOfTargetRange(idx, Num(0, as_usize(idx, slice_len(input)).val),
                                     slice_len(input)))
    ELSE IF input.kind = "String"
    THEN FnOk(String(<<input.str[as_usize(idx, Len(input.str)).val + 1]>>))
    ELSE FnOk(String(input.vec[as_usize(idx, Len(input.vec)).val + 1]))

(***************************************************************************)
(* Execution context (program/context.rs).                                 *)
(***************************************************************************)
\* args: Option<Vec<String>>, None or Some(vec)
Args(some, vec) == [some |-> some, vec |-> vec]

\* Context::new; the queue is borrowed and kept beside the context
Context_new(input, gen, args, is_repl) ==
    [token_start |-> 0, token_len |-> 0, input |-> input, gen |-> gen,
     args |-> args, is_repl |-> is_repl]

\* whether log::debug! formats its arguments (the level filter is at Debug)
LogDebug == TRUE

\* what io::stdin().read_line returns: Ok with the data read, or Err
Read(ok, data) == [ok |-> ok, data |-> data]

\* an I/O call with the text it carries
Event(op, text) == [op |-> op, text |-> text]

\* Context::pop_queue::<N> with the error's fields swapped
pop_queue_swapped(queue, n) ==
    IF Len(queue) < n
    THEN [ok |-> FALSE, vals |-> <<>>, rest |-> queue,
          err |-> QueueTooShort(Len(queue), n)]
    ELSE [ok |-> TRUE, vals |-> Take(queue, n), rest |-> Drop(queue, n),
          err |-> NoError]

\* Context::pop_queue::<N>
pop_queue(queue, n) ==
    IF Len(queue) < n
    THEN [ok |-> FALSE, vals |-> <<>>, rest |-> queue,
          err |-> QueueTooShort(n, Len(queue))]
    ELSE [ok |-> TRUE, vals |-> Take(queue, n), rest |-> Drop(queue, n),
          err |-> NoError]

\* Context::get_context: ok = FALSE when split_at or the slicing panics
get_context(this) ==
    IF this.token_start > Len(this.input)
       \/ this.token_len > Len(this.input) - this.token_start
    THEN [ok |-> FALSE, text |-> <<>>]
    ELSE [ok |-> TRUE,
          text |-> Take(this.input, this.token_start) \o <<"'">>
                   \o SubSeq(this.input, this.token_start + 1,
                             this.token_start + this.token_len)
                   \o <<"'">>
                   \o Drop(this.input, this.token_start + this.token_len)]

\* Context::log_queue: FALSE when formatting the log line panics
log_queue(this) == LogDebug => get_context(this).ok

\* push_queue pushing at the front of the queue
push_queue_front(this, queue, vals) == [ok |-> log_queue(this), values |-> vals \o queue]

\* Context::push_queue
push_queue(this, queue, vals) == [ok |-> log_queue(this), values |-> queue \o vals]

\* VecDeque::rotate_left(mid), for mid <= len
rotate_left(queue, mid) == Drop(queue, mid) \o Take(queue, mid)

\* outcome of exec_token: st is "ok" (Ok(())), "err" (Err(err)) or "panic", with
\* the context and the queue as they are left and the I/O calls made
Exec(st, this, queue, err, events) ==
    [st |-> st, ctx |-> this, values |-> queue, err |-> err, events |-> events]

\* after push_queue or log_queue
Pushed(this, pushed, events) ==
    Exec(IF pushed.ok THEN "ok" ELSE "panic", this, pushed.values, NoError, events)

\* the prompt closure of the In arm
prompt(this) ==
    IF this.is_repl
    THEN [ok |-> get_context(this).ok,
          events |-> <<Event("eprint", get_context(this).text)>>]
    ELSE [ok |-> TRUE, events |-> <<>>]

\* truncate the '\n'
truncate_newline(data) ==
    IF data # <<>> /\ data[Len(data)] = "\n" THEN Take(data, Len(data) - 1) ELSE data

\* exec_token, Token::In, taking the arguments front to back
exec_in_front(this, queue, read) ==
    IF ~prompt(this).ok THEN Exec("panic", this, queue, NoError, <<>>)
    ELSE IF this.args.some /\ this.args.vec # <<>>
    THEN Pushed([this EXCEPT !.args.vec = Tail(@)],
                push_queue(this, queue, <<String(Head(this.args.vec))>>),
                prompt(this).events)
    ELSE IF ~read.ok THEN Exec("err", this, queue, IoError, prompt(this).events)
    ELSE Pushed(this,
                push_queue(this, queue, <<String(truncate_newline(read.data))>>),
                prompt(this).events \o <<Event("read_line", read.data)>>)

\* exec_token, Token::In
exec_in(this, queue, read) ==
    IF ~prompt(this).ok THEN Exec("panic", this, queue, NoError, <<>>)
    ELSE IF this.args.some /\ this.args.vec # <<>>
    THEN Pushed([this EXCEPT !.args.vec = Take(@, Len(@) - 1)],
                push_queue(this, queue,
                           <<String(this.args.vec[Len(this.args.vec)])>>),
                prompt(this).events)
    ELSE IF ~read.ok THEN Exec("err", this, queue, IoError, prompt(this).events)
    ELSE Pushed(this,
                push_queue(this, queue, <<String(truncate_newline(read.data))>>),
                prompt(this).events \o <<Event("read_line", read.data)>>)

\* exec_token, Token::Out
exec_out(this, queue) ==
    LET popped == pop_queue(queue, 1)
    IN  IF ~popped.ok THEN Exec("err", this, queue, popped.err, <<>>)
        ELSE IF this.is_repl
        THEN IF get_context(this).ok
             THEN Exec("ok", this, popped.rest, NoError,
                       <<Event("eprintln", Display(popped.vals[1]))>>)
             ELSE Exec("panic", this, popped.rest, NoError, <<>>)
        ELSE Exec("ok", this, popped.rest, NoError,
                  <<Event("println", Display(popped.vals[1]))>>)

\* exec_token, Token::Rotate(num): rotate_left asserts num <= len
exec_rotate(this, queue, num) ==
    IF num > Len(queue) THEN Exec("panic", this, queue, NoError, <<>>)
    ELSE Pushed(this, [ok |-> log_queue(this), values |-> rotate_left(queue, num)],
                <<>>)

\* exec_token, Token::Copy
exec_copy(this, queue) ==
    LET popped == pop_queue(queue, 1)
    IN  IF ~popped.ok THEN Exec("err", this, queue, popped.err, <<>>)
        ELSE Pushed(this,
                    push_queue(this, popped.rest, <<popped.vals[1], popped.vals[1]>>),
                    <<>>)

\* the N of pop_queue::<N> in the arms that call the function library
Pops(token) == IF token.t = "Concat" THEN 2 ELSE 1

\* the function of the library an arm calls on the popped values
call_func(token, vals) ==
    CASE token.t = "Split" -> split(vals[1], token.some, token.lit)
      [] token.t = "Join" -> join(vals[1])
      [] token.t = "Concat" -> concat(vals[1], vals[2])
      [] token.t = "IsVowel" -> check_all(vals[1], "Vowel")
      [] token.t = "IsConso" -> check_all(vals[1], "Conso")
      [] token.t = "IsUpper" -> check_all(vals[1], "Upper")
      [] token.t = "IsLower" -> check_all(vals[1], "Lower")
      [] token.t = "Map" -> map(vals[1], token.kind)
      [] token.t = "Filter" -> filter(vals[1], token.kind)
      [] token.t = "Index" -> index(vals[1], token.start)
      [] token.t = "Slice" -> slice(vals[1], [start |-> token.start, end |-> token.end])

\* exec_func leaving the operands in the queue when the function fails
exec_func_keeping(this, queue, token) ==
    LET popped == pop_queue(queue, Pops(token))
    IN  IF ~popped.ok THEN Exec("err", this, queue, popped.err, <<>>)
        ELSE CHOOSE done \in
                 { IF ret.panic THEN Exec("panic", this, popped.rest, NoError, <<>>)
                   ELSE IF ~ret.ok THEN Exec("err", this, queue, ret.err, <<>>)
                   ELSE Pushed(this, push_queue(this, popped.rest, <<ret.val>>), <<>>) :
                   ret \in {call_func(token, popped.vals)} } : TRUE

\* exec_token, the arms Split, Join, Concat, IsVowel, IsConso, IsUpper,
\* IsLower, Map, Filter, Index and Slice: pop, call, push
exec_func(this, queue, token) ==
    LET popped == pop_queue(queue, Pops(token))
    IN  IF ~popped.ok THEN Exec("err", this, queue, popped.err, <<>>)
        ELSE CHOOSE done \in
                 { IF ret.panic THEN Exec("panic", this, popped.rest, NoError, <<>>)
                   ELSE IF ~ret.ok THEN Exec("err", this, popped.rest, ret.err, <<>>)
                   ELSE Pushed(this, push_queue(this, popped.rest, <<ret.val>>), <<>>) :
                   ret \in {call_func(token, popped.vals)} } : TRUE

\* Context::exec_token
exec_token(this, queue, token, read) ==
    CASE token.t = "In" -> exec_in(this, queue, read)
      [] token.t = "Out" -> exec_out(this, queue)
      [] token.t = "Rotate" -> exec_rotate(this, queue, token.num)
      [] token.t = "Copy" -> exec_copy(this, queue)
      [] OTHER -> exec_func(this, queue, token)

\* GeneratorState of a resume of the context, with the context and the queue
\* as they are left; tok and len are the token it dispatched, if any
Resumed(k, this, queue, err, events, tok, len) ==
    [k |-> k, ctx |-> this, values |-> queue, err |-> err, events |-> events,
     tok |-> tok, len |-> len]

\* Context::resume, the arm Yielded((token, len))
Context_yielded(this, queue, yielded, read) ==
    CHOOSE state \in
        { Resumed(CASE res.st = "ok" -> "Yielded"
                    [] res.st = "err" -> "CompleteErr"
                    [] res.st = "panic" -> "Panic",
                  [res.ctx EXCEPT !.token_start = @ + yielded.len],
                  res.values, res.err, res.events, yielded.tok, yielded.len) :
          res \in {exec_token([this EXCEPT !.gen = yielded.gen,
                                           !.token_len = yielded.len],
                              queue, yielded.tok, read)} } : TRUE

\* Context::resume after the generator's resume returned res
Context_resumed(this, queue, res, read) ==
    IF res.k = "Yielded" THEN Context_yielded(this, queue, res, read)
    ELSE Resumed(res.k, [this EXCEPT !.gen = res.gen], queue,
                 IF res.k = "CompleteErr" THEN ParseError(res.err, res.text)
                 ELSE NoError,
                 <<>>, Tok("None"), 0)

\* <Context as Generator>::resume
Context_resume(this, queue, read) ==
    CHOOSE state \in
        { Context_resumed(this, queue, res, read) : res \in {Gen_resume(this.gen)} } :
        TRUE

(***************************************************************************)
(* REPL (repl.rs).                                                         *)
(***************************************************************************)
\* Context::command: whether to shut down, whether the queue is cleared
command(cmd) ==
    CASE cmd = <<"e", "x", "i", "t">> -> [shutdown |-> TRUE, clear |-> FALSE]
      [] cmd \in {<<"c">>, <<"c", "l", "e", "a", "r">>} ->
            [shutdown |-> FALSE, clear |-> TRUE]
      [] OTHER -> [shutdown |-> FALSE, clear |-> FALSE]

(***************************************************************************)
(* Lexemes and the texts built from them.                                  *)
(***************************************************************************)
\* every concatenation of at most n texts of pieces
RECURSIVE Concats(_, _)
Concats(pieces, n) ==
    IF n = 0 THEN {<<>>}
    ELSE LET shorter == Concats(pieces, n - 1)
         IN  shorter \cup {p \o t : p \in pieces, t \in shorter}

\* a slice whose start bound does not fit usize
HugeSlice == <<"|">> \o [i \in 1..Len(UsizeMaxDigits) |-> "9"] \o <<".", "|">>

\* a rotation whose count does not fit usize
HugeRotate == <<"@">> \o [i \in 1..Len(UsizeMaxDigits) |-> "9"]

TokPieces ==
    { <<"<">>, <<">">>, <<"~">>, <<"v">>,
      <<"@">>, <<"@", "3">>, <<"@", "0">>,
      <<"/", "/">>, <<"/", Quote, "a", "b", Quote, "/">>, <<"/", Quote, Quote, "/">>,
      <<"{", "%", "}">>, <<"[", "^", "]">>,
      <<"|", ".", "|">>, <<"|", "-", "4", "2", ".", "-", "4", "2", "|">>,
      <<"|", "-", "0", ".", "1", "|">>, <<"|", "0", "7", ".", "-", "0", "|">>,
      <<"|", "0", ".", "|">>,
      <<" ">>, <<"\t", " ">>,
      <<"?">>, <<"|", ".">>, <<"/", Quote, "a">>, <<"-">>, <<"7">>,
      HugeSlice, HugeRotate }

GenPieces ==
    { <<"<">>, <<"/", "/">>, <<"|", ".", "|">>, <<" ">>, <<"?">> }

(***************************************************************************)
(* Tokenizer harness.                                                      *)
(***************************************************************************)
TokIdle ==
    /\ tk_pending = <<>>
    /\ tk_input = <<>>
    /\ tk_res = TokErr("", <<>>)
    /\ tk_called = FALSE

TokInit ==
    /\ tk_pending \in Concats(TokPieces, MaxTokPieces)
    /\ tk_input = <<>>
    /\ tk_res = TokErr("", <<>>)
    /\ tk_called = FALSE

\* next_token(tk_pending); the next call is given the remainder
NextToken ==
    /\ ~tk_called \/ tk_res.st = "ok"
    /\ tk_called' = TRUE
    /\ tk_input' = tk_pending
    /\ tk_res' = next_token(tk_pending)
    /\ tk_pending' = next_token(tk_pending).rest

(***************************************************************************)
(* Generator harness.                                                      *)
(***************************************************************************)
\* history of one generator: last = what the last call was or returned, out =
\* the pairs yielded since construction or the last reset, done = it returned
\* Complete since then, stale = a resume after such a completion returned a
\* value, reset = reset() was called, late = reset() was called after a
\* completion, mid = the last reset() came after at least one yield
NewHist ==
    [last |-> "New", out |-> <<>>, done |-> FALSE, stale |-> FALSE,
     reset |-> FALSE, late |-> FALSE, mid |-> FALSE]

HistResume(h, r) ==
    [h EXCEPT !.last = r.k,
              !.out = IF r.k = "Yielded"
                      THEN Append(h.out, Yielded(r))
                      ELSE h.out,
              !.done = h.done \/ r.k \in {"CompleteOk", "CompleteErr"},
              !.stale = h.stale \/ (h.done /\ r.k # "Panic")]

HistReset(h) ==
    [h EXCEPT !.last = "Reset", !.out = <<>>, !.done = FALSE, !.reset = TRUE,
              !.late = h.late \/ h.done, !.mid = h.out # <<>>]

GenIdle ==
    /\ program = <<>>
    /\ lazyGen = LazyGen_new(<<>>)
    /\ eager_st = "none"
    /\ eagerGen = EagerGen_new(<<>>).gen
    /\ lz = NewHist
    /\ eg = NewHist

GenInit ==
    /\ program \in Concats(GenPieces, MaxGenPieces)
    /\ lazyGen = LazyGen_new(program)
    /\ eager_st = EagerGen_new(program).st
    /\ eagerGen = EagerGen_new(program).gen
    /\ lz = NewHist
    /\ eg = NewHist

\* a panic ends the thread that holds the generator
LazyResume ==
    /\ lz.last # "Panic"
    /\ lazyGen' = LazyGen_resume(lazyGen).gen
    /\ lz' = HistResume(lz, LazyGen_resume(lazyGen))
    /\ UNCHANGED <<program, eager_st, eagerGen, eg>>

LazyReset ==
    /\ lz.last # "Panic"
    /\ lazyGen' = LazyGen_reset(lazyGen)
    /\ lz' = HistReset(lz)
    /\ UNCHANGED <<program, eager_st, eagerGen, eg>>

EagerResume ==
    /\ eager_st = "ok"
    /\ eg.last # "Panic"
    /\ eagerGen' = EagerGen_resume(eagerGen).gen
    /\ eg' = HistResume(eg, EagerGen_resume(eagerGen))
    /\ UNCHANGED <<program, eager_st, lazyGen, lz>>

EagerReset ==
    /\ eager_st = "ok"
    /\ eg.last # "Panic"
    /\ eagerGen' = EagerGen_reset(eagerGen)
    /\ eg' = HistReset(eg)
    /\ UNCHANGED <<program, eager_st, lazyGen, lz>>

(***************************************************************************)
(* Inputs of the execution harnesses.                                      *)
(***************************************************************************)
\* what read_line returns: a line, end of input, or an error
StdinReads == {Read(TRUE, <<"a", "B", "\n">>), Read(TRUE, <<>>), Read(FALSE, <<>>)}

CtxPieces ==
    { <<"<">>, <<">">>, <<"~">>, <<"@">>, <<" ">>,
      <<"/", Quote, "a", Quote, "/">>, <<"?">> }

CtxArgs == {Args(FALSE, <<>>), Args(TRUE, << <<"x">> >>), Args(TRUE, << <<"x">>, <<"y">> >>)}

\* the generators a context over text can be given
CtxGens(text) ==
    {LazyGen_new(text)}
        \cup (IF EagerGen_new(text).st = "ok" THEN {EagerGen_new(text).gen} ELSE {})

ExecValues ==
    { String(<<"a", "B">>), String(<<>>), String(<<"c">>),
      StringVec(<< <<"a">>, <<"B", "c">> >>), StringVec(<< <<"c">> >>),
      Bool(TRUE) }

ExecQueues == UNION {[1..n -> ExecValues] : n \in 0..MaxQueue}

ExecIndices == {from_components(back, Num(0, n)) : back \in BOOLEAN, n \in 0..MaxIndex}

ExecTokens ==
    {Tok(t) : t \in {"In", "Out", "Join", "Concat", "Copy", "IsVowel", "IsConso",
                     "IsUpper", "IsLower"}}
        \cup {RotateTok(n) : n \in 0..MaxRotate}
        \cup {SplitTok(FALSE, <<>>), SplitTok(TRUE, <<"a">>)}
        \cup {MapTok(k) : k \in {"Lower", "Upper", "Swap"}}
        \cup {FilterTok(k) : k \in {"Vowel", "Conso", "Upper", "Lower"}}
        \cup {IndexTok(i) : i \in ExecIndices}
        \cup {SliceTok(s, e) : s, e \in ExecIndices \cup {NoIndex}}

\* a context in the middle of resume, over a program of one byte: the
\* generator yielded the token at (0, 1)
ExecContext(args, is_repl) ==
    [Context_new(<<"*">>, LazyGen_new(<<"*">>), args, is_repl) EXCEPT !.token_len = 1]

ReplTexts ==
    { <<"<">>, <<">">>, <<"<", "?">>, <<">", "?">>, <<"?", "<">>, <<"<", " ", ">">>,
      <<" ">>, HugeSlice \o <<"?">>, <<"~">>,
      <<"!", "c">>, <<"!", "e", "x", "i", "t">>, <<"!", "z">> }

\* what the REPL's read_line returns
ReplReads == {Read(TRUE, t \o <<"\n">>) : t \in ReplTexts}
        \cup {Read(TRUE, <<>>), Read(FALSE, <<>>)}

(***************************************************************************)
(* Context harness: a host resumes one Context.                            *)
(***************************************************************************)
IdleContext == Context_new(<<>>, LazyGen_new(<<>>), Args(FALSE, <<>>), FALSE)

\* history of the context: last = what the last resume returned; tok = the
\* token it dispatched; (start, len) = the span the context held during the
\* dispatch; (src_start, src_len) = where the text of that token lies in the
\* program; pos = the bytes of the program lexed so far; failed = a resume
\* returned Complete(Err) from a dispatch, with the queue and the I/O then;
\* given = the input string the run harness gave the program
NewCx ==
    [last |-> "New", tok |-> Tok("None"), start |-> 0, len |-> 0,
     src_start |-> 0, src_len |-> 0, pos |-> 0,
     failed |-> FALSE, fail_values |-> <<>>, fail_io |-> <<>>, given |-> <<>>]

\* bytes of whitespace before the next token of the program
SrcWs(h, this) == PrefixLen(Drop(this.input, h.pos), AsciiWhitespace)

\* bytes the tokenizer consumes for the next token of the program
SrcConsumed(h, this) ==
    Len(this.input) - h.pos - Len(next_token(Drop(this.input, h.pos)).rest)

CxResume(h, this, res, queue, log) ==
    IF res.tok.t = "None"
    THEN [h EXCEPT !.last = res.k, !.tok = res.tok]
    ELSE [h EXCEPT !.last = res.k, !.tok = res.tok,
                   !.start = this.token_start, !.len = res.len,
                   !.src_start = h.pos + SrcWs(h, this),
                   !.src_len = SrcConsumed(h, this) - SrcWs(h, this),
                   !.pos = h.pos + SrcConsumed(h, this),
                   !.failed = h.failed \/ res.k = "CompleteErr",
                   !.fail_values = IF ~h.failed /\ res.k = "CompleteErr"
                                   THEN queue ELSE h.fail_values,
                   !.fail_io = IF ~h.failed /\ res.k = "CompleteErr"
                               THEN log ELSE h.fail_io]

NewRepl ==
    [phase |-> "idle", lines |-> 0, input |-> <<>>, values0 |-> <<>>, io0 |-> <<>>]

NewEx == [token |-> Tok("None"), done |-> FALSE, before |-> <<>>, st |-> "",
          err |-> NoError]

RunIdle ==
    /\ ctx = IdleContext
    /\ values = <<>>
    /\ io = <<>>
    /\ cx = NewCx
    /\ repl = NewRepl
    /\ ex = NewEx

CtxInit ==
    /\ \E text \in Concats(CtxPieces, MaxCtxPieces), args \in CtxArgs, is_repl \in BOOLEAN :
          \E gen \in CtxGens(text) : ctx = Context_new(text, gen, args, is_repl)
    /\ values = <<>>
    /\ io = <<>>
    /\ cx = [NewCx EXCEPT !.last = "Created"]
    /\ repl = NewRepl
    /\ ex = NewEx

\* the host calls resume; a panic ends the thread that holds the context
CtxResume ==
    /\ cx.last \notin {"New", "Panic"}
    /\ \E read \in StdinReads :
          \E res \in {Context_resume(ctx, values, read)} :
              /\ ctx' = res.ctx
              /\ values' = res.values
              /\ io' = io \o res.events
              /\ cx' = CxResume(cx, ctx, res, res.values, io \o res.events)
    /\ UNCHANGED <<repl, ex>>

(***************************************************************************)
(* Dispatch harness: exec_token on one token and one queue.                *)
(***************************************************************************)
ExecInit ==
    /\ \E args \in CtxArgs, is_repl \in BOOLEAN : ctx = ExecContext(args, is_repl)
    /\ values \in ExecQueues
    /\ io = <<>>
    /\ cx = NewCx
    /\ repl = NewRepl
    /\ \E token \in ExecTokens : ex = [NewEx EXCEPT !.token = token]

Dispatch ==
    /\ ex.token.t # "None"
    /\ ~ex.done
    /\ \E read \in StdinReads :
          \E res \in {exec_token(ctx, values, ex.token, read)} :
              /\ ctx' = res.ctx
              /\ values' = res.values
              /\ io' = io \o res.events
              /\ ex' = [ex EXCEPT !.done = TRUE, !.before = values, !.st = res.st,
                                  !.err = res.err]
    /\ UNCHANGED <<cx, repl>>

(***************************************************************************)
(* REPL harness: repl::Context::run.                                       *)
(***************************************************************************)
ReplInit ==
    /\ ctx = IdleContext
    /\ values = <<>>
    /\ io = <<>>
    /\ cx = NewCx
    /\ repl = [NewRepl EXCEPT !.phase = "read"]
    /\ ex = NewEx

\* Repl_line with a new queue for every program and after every parse error
Repl_line_fresh(queue, read) ==
    LET input == truncate_newline(read.data)
        continue == [phase |-> "read", values |-> queue, ctx |-> IdleContext]
    IN  IF ~read.ok THEN [continue EXCEPT !.phase = "exit"]
        ELSE IF input = <<>> THEN continue
        ELSE IF Head(input) = "!"
        THEN IF command(Tail(input)).shutdown THEN [continue EXCEPT !.phase = "exit"]
             ELSE IF command(Tail(input)).clear THEN [continue EXCEPT !.values = <<>>]
             ELSE continue
        ELSE IF EagerGen_new(input).st = "err" THEN [continue EXCEPT !.values = <<>>]
        ELSE IF EagerGen_new(input).st = "panic" THEN [continue EXCEPT !.phase = "panic"]
        ELSE [phase |-> "run", values |-> <<>>,
              ctx |-> Context_new(input, EagerGen_new(input).gen, Args(FALSE, <<>>), TRUE)]

\* one iteration of 'outer up to the inner loop, on the line read: the next
\* phase, the queue, and the program context if one is built
Repl_line(queue, read) ==
    LET input == truncate_newline(read.data)
        continue == [phase |-> "read", values |-> queue, ctx |-> IdleContext]
    IN  IF ~read.ok THEN [continue EXCEPT !.phase = "exit"]
        ELSE IF input = <<>> THEN continue
        ELSE IF Head(input) = "!"
        THEN IF command(Tail(input)).shutdown THEN [continue EXCEPT !.phase = "exit"]
             ELSE IF command(Tail(input)).clear THEN [continue EXCEPT !.values = <<>>]
             ELSE continue
        ELSE IF EagerGen_new(input).st = "err" THEN continue
        ELSE IF EagerGen_new(input).st = "panic" THEN [continue EXCEPT !.phase = "panic"]
        ELSE [phase |-> "run", values |-> queue,
              ctx |-> Context_new(input, EagerGen_new(input).gen, Args(FALSE, <<>>), TRUE)]

\* the REPL reads a line
ReplReadLine ==
    /\ repl.phase = "read"
    /\ repl.lines < MaxLines
    /\ \E read \in ReplReads :
          \E next \in {Repl_line(values, read)} :
              /\ ctx' = next.ctx
              /\ values' = next.values
              /\ repl' = [phase |-> next.phase, lines |-> repl.lines + 1,
                          input |-> truncate_newline(read.data),
                          values0 |-> values, io0 |-> io]
    /\ UNCHANGED <<io, cx, ex>>

\* one iteration of 'inner
ReplResume ==
    /\ repl.phase = "run"
    /\ \E read \in StdinReads :
          \E res \in {Context_resume(ctx, values, read)} :
              /\ ctx' = res.ctx
              /\ values' = res.values
              /\ io' = io \o res.events
              /\ repl' = [repl EXCEPT !.phase =
                            CASE res.k = "Yielded" -> "run"
                              [] res.k \in {"CompleteOk", "CompleteErr"} -> "read"
                              [] res.k = "Panic" -> "panic"]
    /\ UNCHANGED <<cx, ex>>

(***************************************************************************)
(* Range harness: one call of as_range, as_usize or slice.                 *)
(***************************************************************************)
\* the first len letters of the alphabet, repeated when len is larger
Letters(len) == [i \in 1..len |-> LowerLetters[((i - 1) % 26) + 1]]

\* the values of length len that slice is given
RangeValues(len) ==
    {String(Letters(len)), StringVec([i \in 1..len |-> <<Letters(len)[i]>>])}

\* the magnitudes of the bounds: small ones, isize::MAX + 1 and usize::MAX
IndexValues == {Num(0, n) : n \in 0..MaxIndex} \cup {Num(1, 0), UsizeMax}

\* the bounds of the ranges: none, Start(n) and End(n)
RangeBounds ==
    {NoIndex} \cup {from_components(back, n) : back \in BOOLEAN, n \in IndexValues}

\* op = the function called ("new" before the call); out = what it returned
NewRg ==
    [op |-> "none", range |-> NoRange, len |-> 0, input |-> Bool(FALSE),
     out |-> RangeRes(FALSE, FALSE, 0, 0, NoError)]

RngIdle == rg = NewRg

RangeInit ==
    \E start, end \in RangeBounds, len \in 0..MaxLen :
        rg = [NewRg EXCEPT !.op = "new", !.range = [start |-> start, end |-> end],
                           !.len = len]

\* range.as_range(len)
AsRange ==
    /\ rg.op = "new"
    /\ rg' = [rg EXCEPT !.op = "as_range", !.out = as_range(rg.range, rg.len)]

\* index.as_usize(len), on the start bound of the range
AsUsize ==
    /\ rg.op = "new"
    /\ rg.range.start.some
    /\ rg' = [rg EXCEPT !.op = "as_usize", !.out = as_usize(rg.range.start, rg.len)]

\* func::slice(input, range) on a value of the length
Slice ==
    /\ rg.op = "new"
    /\ \E input \in RangeValues(rg.len) :
          rg' = [rg EXCEPT !.op = "slice", !.input = input,
                           !.out = slice(input, rg.range)]

(***************************************************************************)
(* Run harness: a host resumes the context of one program until it         *)
(* completes, In reading the standard input line by line.                  *)
(***************************************************************************)
\* the example program of the help text
ExampleProgram == <<"<", "*", "[", "^", "]", "[", "_", "]", "~", ">">>

RunLetters == {"A", "b", "C"}

\* the input strings
RunInputs == UNION {[1..n -> RunLetters] : n \in 0..MaxInput}

\* the harnesses that do not read lines from stdin
StdinIdle == stdin = <<>>

\* the input is the argument of the program, or the one line of the standard
\* input, with or without its line end
RunInit ==
    /\ \E s \in RunInputs, is_repl \in BOOLEAN :
          \E gen \in CtxGens(ExampleProgram) :
              /\ cx = [NewCx EXCEPT !.last = "Created", !.given = s]
              /\ \/ /\ ctx = Context_new(ExampleProgram, gen, Args(TRUE, <<s>>), is_repl)
                    /\ stdin = <<>>
                 \/ /\ ctx = Context_new(ExampleProgram, gen, Args(FALSE, <<>>), is_repl)
                    /\ stdin \in {<<s \o <<"\n">> >>, <<s>>}
    /\ values = <<>>
    /\ io = <<>>
    /\ repl = NewRepl
    /\ ex = NewEx

\* Stdin::read_line: the next line, or Ok(0) at the end of the input
read_line(lines) == IF lines = <<>> THEN Read(TRUE, <<>>) ELSE Read(TRUE, Head(lines))

\* the host calls resume until the context completes
RunResume ==
    /\ cx.last \in {"Created", "Yielded"}
    /\ \E res \in {Context_resume(ctx, values, read_line(stdin))} :
          /\ ctx' = res.ctx
          /\ values' = res.values
          /\ io' = io \o res.events
          /\ cx' = CxResume(cx, ctx, res, res.values, io \o res.events)
          /\ stdin' = IF \E i \in DOMAIN res.events : res.events[i].op = "read_line"
                      THEN Drop(stdin, 1) ELSE stdin
    /\ UNCHANGED <<repl, ex>>

(***************************************************************************)
(* TokenIter (parse/iter.rs).                                              *)
(***************************************************************************)
\* TokenIter::new
TokenIter_new(input) == [input |-> input, index |-> 0, error |-> FALSE]

\* str::find(pat) for a pattern that occurs: the byte index of the first match
str_find(text, pat) ==
    CHOOSE i \in 0..Len(text) :
        /\ i + Len(pat) <= Len(text)
        /\ SubSeq(text, i + 1, i + Len(pat)) = pat
        /\ \A j \in 0..(i - 1) : SubSeq(text, j + 1, j + Len(pat)) # pat

\* what next() returns, with the iterator as it is left: k is "None",
\* "Ok" (Some(Ok(tok))), "Err" (Some(Err(err))) or "Panic"
IterItem(k, this, tok, err) == [k |-> k, iter |-> this, tok |-> tok, err |-> err]

\* <TokenIter as Iterator>::next
TokenIter_next(this) ==
    IF this.error \/ Drop(this.input, this.index) = <<>>
    THEN IterItem("None", this, Tok("None"), NoError)
    ELSE CHOOSE item \in
             { CASE r.st = "ok" ->
                      IterItem("Ok",
                               [this EXCEPT !.index = IF r.rest = <<>>
                                                      THEN Len(this.input)
                                                      ELSE str_find(this.input, r.rest),
                                            !.error = FALSE],
                               r.tok, NoError)
                 [] r.st = "err" ->
                      IterItem("Err", [this EXCEPT !.error = TRUE], Tok("None"),
                               ParseError(r.err, r.text))
                 [] r.st = "panic" -> IterItem("Panic", this, Tok("None"), NoError) :
               r \in {next_token(Drop(this.input, this.index))} } : TRUE

(***************************************************************************)
(* Executor (exec/inner.rs) and run_exec (repl/inner.rs).                  *)
(***************************************************************************)
\* Executor::new
Executor_new(input) ==
    [input |-> input, values |-> <<>>, tokens |-> TokenIter_new(input)]

\* Executor::reset; ok = FALSE when it returns Err(Error::malformed())
Executor_reset(this) ==
    IF this.tokens.error THEN [ok |-> FALSE, exec |-> this]
    ELSE [ok |-> TRUE,
          exec |-> [this EXCEPT !.tokens = TokenIter_new(this.input), !.values = <<>>]]

\* outcome of Executor::next_token: st is "ok", "err" or "panic"
Stepped(st, queue, err) == [st |-> st, values |-> queue, err |-> err]

\* Executor::pop_queue, then the rest of the arm on the value popped
Executor_pop_queue(queue) ==
    IF queue = <<>> THEN [ok |-> FALSE, val |-> Bool(FALSE), rest |-> queue]
    ELSE [ok |-> TRUE, val |-> Head(queue), rest |-> Tail(queue)]

\* Executor::next_token, the arms that pop one value, call the library and push
Executor_call(queue, token) ==
    IF ~Executor_pop_queue(queue).ok THEN Stepped("err", queue, Error("EmptyQueue"))
    ELSE CHOOSE done \in
             { IF ret.panic THEN Stepped("panic", Tail(queue), NoError)
               ELSE IF ~ret.ok THEN Stepped("err", Tail(queue), ret.err)
               ELSE Stepped("ok", Append(Tail(queue), ret.val), NoError) :
               ret \in {call_func(token, <<Head(queue)>>)} } : TRUE

\* Executor::next_token, Token::Concat: the values are popped one at a time
Executor_concat(queue) ==
    IF ~Executor_pop_queue(queue).ok THEN Stepped("err", queue, Error("EmptyQueue"))
    ELSE IF ~Executor_pop_queue(Tail(queue)).ok
    THEN Stepped("err", Tail(queue), Error("EmptyQueue"))
    ELSE IF ~concat(queue[1], queue[2]).ok
    THEN Stepped("err", Drop(queue, 2), concat(queue[1], queue[2]).err)
    ELSE Stepped("ok", Append(Drop(queue, 2), concat(queue[1], queue[2]).val), NoError)

\* Executor::next_token; read_expect panics when the read fails
Executor_next_token(queue, token, read) ==
    CASE token.t = "In" ->
            IF ~read.ok THEN Stepped("panic", queue, NoError)
            ELSE Stepped("ok", Append(queue, String(truncate_newline(read.data))), NoError)
      [] token.t = "Out" ->
            IF ~Executor_pop_queue(queue).ok
            THEN Stepped("err", queue, Error("EmptyQueue"))
            ELSE Stepped("ok", Tail(queue), NoError)
      [] token.t = "Rotate" ->
            IF token.num > Len(queue) THEN Stepped("panic", queue, NoError)
            ELSE Stepped("ok", rotate_left(queue, token.num), NoError)
      [] token.t = "Concat" -> Executor_concat(queue)
      [] token.t = "Copy" ->
            IF ~Executor_pop_queue(queue).ok
            THEN Stepped("err", queue, Error("EmptyQueue"))
            ELSE Stepped("ok", Tail(queue) \o <<Head(queue), Head(queue)>>, NoError)
      [] OTHER -> Executor_call(queue, token)

\* <ExecutorIter as Iterator>::next: k is "None", "Ok" (Some(Ok(()))), "Err"
\* (Some(Err(err))) or "Panic", with the executor as it is left
ExecutorIter_next(exec, read) ==
    IF exec.tokens.error THEN [k |-> "None", exec |-> exec]
    ELSE CHOOSE item \in
             { CASE next.k = "None" -> [k |-> "None", exec |-> exec]
                 [] next.k = "Panic" -> [k |-> "Panic", exec |-> exec]
                 [] next.k = "Err" ->
                      [k |-> "Err", exec |-> [exec EXCEPT !.tokens = next.iter]]
                 [] next.k = "Ok" ->
                      CHOOSE stepped \in
                          { [k |-> CASE res.st = "ok" -> "Ok"
                                     [] res.st = "err" -> "Err"
                                     [] res.st = "panic" -> "Panic",
                             exec |-> [exec EXCEPT !.tokens = next.iter,
                                                   !.values = res.values]] :
                            res \in {Executor_next_token(exec.values, next.tok, read)} } :
                          TRUE :
               next \in {TokenIter_next(exec.tokens)} } : TRUE

(***************************************************************************)
(* Iterator harness: next() on one TokenIter.                              *)
(***************************************************************************)
\* the iterator; out = the tokens yielded, last = what the last next()
\* returned, back = the index decreased in a call, kept = a call that
\* yielded a token left the index where it was
NewIt ==
    [iter |-> TokenIter_new(<<>>), out |-> <<>>, last |-> "New", back |-> FALSE,
     kept |-> FALSE]

\* the executor between and inside the calls of run_exec: phase is "stored",
\* "running" or "panic"; calls = how often run_exec returned, ret = what it
\* returned last, steps = iterations of its loop so far
NewXr ==
    [exec |-> Executor_new(<<>>), phase |-> "idle", calls |-> 0, ret |-> "none",
     steps |-> 0]

\* the loop of Context::run: resumes = calls of resume, executed = tokens
\* given to exec_token, done = a resume returned Complete
NewDrv == [resumes |-> 0, executed |-> 0, done |-> FALSE]

IterIdle == it = NewIt /\ xr = NewXr /\ drv = NewDrv

IterInit ==
    /\ \E input \in Concats(GenPieces, MaxGenPieces) :
          it = [NewIt EXCEPT !.iter = TokenIter_new(input), !.last = "Created"]
    /\ xr = NewXr
    /\ drv = NewDrv

\* a call of next(); a panic ends the thread that holds the iterator
IterNext ==
    /\ it.last \notin {"New", "Panic"}
    /\ Len(it.out) < MaxYields
    /\ \E item \in {TokenIter_next(it.iter)} :
          it' = [iter |-> item.iter,
                 out |-> IF item.k = "Ok" THEN Append(it.out, item.tok) ELSE it.out,
                 last |-> item.k,
                 back |-> it.back \/ item.iter.index < it.iter.index,
                 kept |-> it.kept \/ (item.k = "Ok" /\ item.iter.index = it.iter.index)]
    /\ UNCHANGED <<xr, drv>>

(***************************************************************************)
(* Stored-program harness: the command "c name" calls run_exec on the      *)
(* executor stored under the name.                                         *)
(***************************************************************************)
StoredInit ==
    /\ \E input \in Concats(CtxPieces, MaxCtxPieces) :
          xr = [NewXr EXCEPT !.exec = Executor_new(input), !.phase = "stored"]
    /\ it = NewIt
    /\ drv = NewDrv

\* Context::command, "c name": the executor is taken out and run_exec begins
CallStored ==
    /\ xr.phase = "stored"
    /\ xr.calls < MaxCalls
    /\ xr' = [xr EXCEPT !.phase = "running"]
    /\ UNCHANGED <<it, drv>>

\* run_exec, one iteration of its loop: a result that is an error returns it
\* at once; at the end of the iterator the executor is reset, the result of
\* reset() is dropped, and Ok(()) is returned
RunExecStep ==
    /\ xr.phase = "running"
    /\ xr.steps < MaxSteps
    /\ \E read \in StdinReads :
          \E item \in {ExecutorIter_next(xr.exec, read)} :
              xr' = CASE item.k = "Ok" ->
                           [xr EXCEPT !.exec = item.exec, !.steps = @ + 1]
                      [] item.k = "Err" ->
                           [xr EXCEPT !.exec = item.exec, !.steps = @ + 1,
                                      !.phase = "stored", !.calls = @ + 1,
                                      !.ret = "err"]
                      [] item.k = "None" ->
                           [xr EXCEPT !.exec = Executor_reset(item.exec).exec,
                                      !.steps = @ + 1,
                                      !.phase = "stored", !.calls = @ + 1,
                                      !.ret = "ok"]
                      [] item.k = "Panic" ->
                           [xr EXCEPT !.exec = item.exec, !.phase = "panic"]
    /\ UNCHANGED <<it, drv>>

(***************************************************************************)
(* Run-loop harness: Context::run resumes the context until the first      *)
(* Complete.                                                               *)
(***************************************************************************)
DriveInit ==
    /\ CtxInit
    /\ it = NewIt
    /\ xr = NewXr
    /\ drv = NewDrv

\* Context::run, one iteration of its loop: Yielded continues, Complete
\* breaks; a panic ends the thread
DriveResume ==
    /\ ~drv.done
    /\ cx.last # "Panic"
    /\ \E read \in StdinReads :
          \E res \in {Context_resume(ctx, values, read)} :
              /\ ctx' = res.ctx
              /\ values' = res.values
              /\ io' = io \o res.events
              /\ cx' = CxResume(cx, ctx, res, res.values, io \o res.events)
              /\ drv' = [resumes |-> drv.resumes + 1,
                         executed |-> drv.executed + (IF res.tok.t = "None" THEN 0 ELSE 1),
                         done |-> res.k \in {"CompleteOk", "CompleteErr"}]
    /\ UNCHANGED <<repl, ex, it, xr>>

(***************************************************************************)
(* Specifications.                                                         *)
(***************************************************************************)
\* the release profile: integer overflow wraps
ReleaseBuild == overflow_checks = FALSE

\* the dev or the release profile
AnyBuild == overflow_checks \in BOOLEAN

InitTok == TokInit /\ GenIdle /\ RunIdle /\ RngIdle /\ StdinIdle /\ IterIdle /\ ReleaseBuild

NextTok == NextToken /\ UNCHANGED <<genVars, runVars, rngVars, stdin, iterVars, overflow_checks>>

SpecTok == InitTok /\ [][NextTok]_vars

InitGen == GenInit /\ TokIdle /\ RunIdle /\ RngIdle /\ StdinIdle /\ IterIdle /\ ReleaseBuild

NextGen ==
    \/ LazyResume /\ UNCHANGED <<tokVars, runVars, rngVars, stdin, iterVars, overflow_checks>>
    \/ LazyReset /\ UNCHANGED <<tokVars, runVars, rngVars, stdin, iterVars, overflow_checks>>
    \/ EagerResume /\ UNCHANGED <<tokVars, runVars, rngVars, stdin, iterVars, overflow_checks>>
    \/ EagerReset /\ UNCHANGED <<tokVars, runVars, rngVars, stdin, iterVars, overflow_checks>>

SpecGen == InitGen /\ [][NextGen]_vars

InitCtx == CtxInit /\ TokIdle /\ GenIdle /\ RngIdle /\ StdinIdle /\ IterIdle /\ ReleaseBuild

NextCtx == CtxResume /\ UNCHANGED <<tokVars, genVars, rngVars, stdin, iterVars, overflow_checks>>

SpecCtx == InitCtx /\ [][NextCtx]_vars

InitExec == ExecInit /\ TokIdle /\ GenIdle /\ RngIdle /\ StdinIdle /\ IterIdle /\ ReleaseBuild

NextExec == Dispatch /\ UNCHANGED <<tokVars, genVars, rngVars, stdin, iterVars, overflow_checks>>

SpecExec == InitExec /\ [][NextExec]_vars

InitRepl == ReplInit /\ TokIdle /\ GenIdle /\ RngIdle /\ StdinIdle /\ IterIdle /\ ReleaseBuild

NextRepl ==
    \/ ReplReadLine /\ UNCHANGED <<tokVars, genVars, rngVars, stdin, iterVars, overflow_checks>>
    \/ ReplResume /\ UNCHANGED <<tokVars, genVars, rngVars, stdin, iterVars, overflow_checks>>

SpecRepl == InitRepl /\ [][NextRepl]_vars

InitRun == RunInit /\ TokIdle /\ GenIdle /\ RngIdle /\ IterIdle /\ ReleaseBuild

NextRun == RunResume /\ UNCHANGED <<tokVars, genVars, rngVars, iterVars, overflow_checks>>

SpecRun == InitRun /\ [][NextRun]_vars

InitIter ==
    IterInit /\ TokIdle /\ GenIdle /\ RunIdle /\ RngIdle /\ StdinIdle /\ ReleaseBuild

NextIter ==
    IterNext /\ UNCHANGED <<tokVars, genVars, runVars, rngVars, stdin, overflow_checks>>

SpecIter == InitIter /\ [][NextIter]_vars

InitStored ==
    StoredInit /\ TokIdle /\ GenIdle /\ RunIdle /\ RngIdle /\ StdinIdle /\ ReleaseBuild

NextStored ==
    \/ CallStored /\ UNCHANGED <<tokVars, genVars, runVars, rngVars, stdin, overflow_checks>>
    \/ RunExecStep /\ UNCHANGED <<tokVars, genVars, runVars, rngVars, stdin, overflow_checks>>

SpecStored == InitStored /\ [][NextStored]_vars

InitDrive == DriveInit /\ TokIdle /\ GenIdle /\ RngIdle /\ StdinIdle /\ ReleaseBuild

NextDrive ==
    DriveResume /\ UNCHANGED <<tokVars, genVars, rngVars, stdin, overflow_checks>>

\* run() is a loop that does nothing but call resume: it takes its next
\* iteration whenever there is one
SpecDrive == InitDrive /\ [][NextDrive]_vars /\ WF_vars(NextDrive)

InitRange == RangeInit /\ TokIdle /\ GenIdle /\ RunIdle /\ StdinIdle /\ IterIdle /\ AnyBuild

NextRange ==
    \/ AsRange /\ UNCHANGED <<tokVars, genVars, runVars, stdin, iterVars, overflow_checks>>
    \/ AsUsize /\ UNCHANGED <<tokVars, genVars, runVars, stdin, iterVars, overflow_checks>>
    \/ Slice /\ UNCHANGED <<tokVars, genVars, runVars, stdin, iterVars, overflow_checks>>

SpecRange == InitRange /\ [][NextRange]_vars

(***************************************************************************)
(* Properties of the tokenizer.                                            *)
(***************************************************************************)
\* the number of leading whitespace bytes of the text the last call was given
LeadingWs == PrefixLen(tk_input, AsciiWhitespace)

\* the number of bytes the last call consumed
Consumed == Len(tk_input) - Len(tk_res.rest)

\* C9: for an input that starts, without leading whitespace, with a valid
\* token, the length next_token returns is the byte length of the token's
\* source text, len(input) - len(remainder).
C9_LengthIsExact ==
    (tk_called /\ tk_res.st = "ok" /\ LeadingWs = 0) => tk_res.len = Consumed

\* C10: for an input that starts with w >= 1 bytes of whitespace followed by
\* a valid token of t bytes, the length next_token returns is w + t.
C10_LengthCountsWhitespace ==
    (tk_called /\ tk_res.st = "ok" /\ LeadingWs >= 1) => tk_res.len = Consumed

(***************************************************************************)
(* Properties of the generators.                                           *)
(***************************************************************************)
IsPrefix(a, b) == Len(a) <= Len(b) /\ a = Take(b, Len(a))

\* the pairs a freshly constructed generator over text yields before Complete
Fresh(text) == EagerGen_collect(LazyGen_new(text), <<>>).tokens

\* C1: for a program that tokenizes without error, a fresh EagerGen and a
\* fresh LazyGen stepped to completion yield the same (token, length) pairs
\* in the same order, and both complete with Ok.
C1_EagerYieldsWhatLazyYields ==
    (eager_st = "ok" /\ ~lz.reset /\ ~eg.reset) =>
        /\ \A i \in 1..Len(lz.out) : i <= Len(eg.out) => lz.out[i] = eg.out[i]
        /\ lz.last # "CompleteErr"
        /\ lz.last = "Panic" => lz.done
        /\ eg.last \notin {"CompleteErr", "Panic"}
        /\ (lz.done /\ eg.done) => lz.out = eg.out

C1_Witness ==
    /\ eager_st = "ok" /\ ~lz.reset /\ ~eg.reset
    /\ lz.last = "CompleteOk" /\ eg.last = "CompleteOk"
    /\ Len(lz.out) = 3
    /\ \E i \in 1..3 : lz.out[i].len > 1

\* C3: a LazyGen that returned Complete(Ok) or Complete(Err) and is resumed
\* again without reset() panics: no resume after a completion returns a
\* token or a completion value.
C3_ResumeAfterCompletePanics == ~lz.stale

\* a generator reset only before it completed
ResetMidStream(hist) == hist.reset /\ ~hist.late

\* what C4 states of one generator
YieldsAsFresh(hist) ==
    /\ hist.last # "CompleteErr"
    /\ hist.last = "Panic" => hist.done
    /\ IsPrefix(hist.out, Fresh(program))
    /\ hist.done => hist.out = Fresh(program)

\* C4: LazyGen and EagerGen over a valid program of n tokens: after k < n
\* resumes and reset(), the resumes yield the n pairs of a fresh generator,
\* in order, and then Complete(Ok).
C4_ResetMidStreamRestarts ==
    eager_st = "ok" =>
        /\ ResetMidStream(lz) => YieldsAsFresh(lz)
        /\ ResetMidStream(eg) => YieldsAsFresh(eg)

C4_Witness ==
    /\ eager_st = "ok"
    /\ ResetMidStream(lz) /\ lz.mid /\ lz.last = "CompleteOk"
    /\ ResetMidStream(eg) /\ eg.mid /\ eg.last = "CompleteOk"
    /\ Len(lz.out) = 3
    /\ lz.out[1] # lz.out[2]

(***************************************************************************)
(* Properties of the execution context.                                    *)
(***************************************************************************)
\* C2: once a resume of a Context has returned Complete(Err) from the
\* dispatch of a token, no later resume executes a token: the queue and the
\* I/O done stay as that resume left them.
C2_NothingRunsAfterFailure ==
    cx.failed => (values = cx.fail_values /\ io = cx.fail_io)

\* C8: the span (token_start, token_len) the context holds while a token is
\* dispatched is the byte offset and the byte length of that token's text in
\* the program.
C8_SpanIsTokenText ==
    cx.tok.t # "None" => (cx.start = cx.src_start /\ cx.len = cx.src_len)

(***************************************************************************)
(* Properties of the dispatch.                                             *)
(***************************************************************************)
\* the tokens whose arm pops from the queue
Popping ==
    {"Out", "Split", "Join", "Concat", "Copy", "IsVowel", "IsConso", "IsUpper",
     "IsLower", "Map", "Filter", "Index", "Slice"}

\* C6: a token that pops N values (N = 2 for Concat, 1 for the others),
\* dispatched on a queue of fewer than N values, ends with the error
\* QueueTooShort(N, length of the queue) and does not panic.
C6_ShortQueueIsQueueTooShort ==
    (ex.done /\ ex.token.t \in Popping /\ Len(ex.before) < Pops(ex.token)) =>
        (ex.st = "err" /\ ex.err = QueueTooShort(Pops(ex.token), Len(ex.before)))

C6_Witness ==
    /\ ex.done /\ ex.token.t = "Concat" /\ Len(ex.before) = 1
    /\ ex.err = QueueTooShort(2, 1)

\* queue rotated left by n positions
RotatedLeft(queue, n) ==
    [i \in 1..Len(queue) |-> queue[((i - 1 + n) % Len(queue)) + 1]]

\* C7: Rotate(n) dispatched on any queue, the empty one and those shorter
\* than n included, yields without error or panic and leaves the queue
\* rotated left by n positions.
C7_RotateAlwaysSucceeds ==
    (ex.done /\ ex.token.t = "Rotate") =>
        (ex.st = "ok" /\ values = RotatedLeft(ex.before, ex.token.num))

(***************************************************************************)
(* Properties of the REPL.                                                 *)
(***************************************************************************)
\* some token of text is invalid: next_token, applied from token to token,
\* returns an error before the text is used up
RECURSIVE HasInvalidToken(_)
HasInvalidToken(text) ==
    IF trim_matches(text) = <<>> THEN FALSE
    ELSE \/ next_token(text).st # "ok"
         \/ HasInvalidToken(next_token(text).rest)

\* C5: EagerGen::new on a text with an invalid token anywhere returns the
\* parse error and no generator, and the REPL executes nothing of such a
\* line: the queue and the I/O done are as they were when the line was read.
C5_InvalidLineExecutesNothing ==
    (repl.lines > 0 /\ ~starts_with(repl.input, "!") /\ HasInvalidToken(repl.input)) =>
        /\ EagerGen_new(repl.input).st = "err"
        /\ repl.phase # "run"
        /\ values = repl.values0
        /\ io = repl.io0

(***************************************************************************)
(* Properties of the relative indices and ranges.                          *)
(***************************************************************************)
\* the position a bound denotes on a target of length len, as an integer:
\* Start(n) is n, End(n) is len - n, a missing bound is the default
Resolved(bound, len, default) ==
    IF ~bound.some THEN Num(0, default)
    ELSE IF bound.back THEN NumAdd(Num(0, len), NumNeg(bound.n))
    ELSE bound.n

\* C11: as_range(len) returns either Ok(s..e) with 0 <= s <= e <= len, s and e
\* being exactly the positions its bounds denote (missing start 0, missing
\* end len), or a typed RangeError; no bound is clamped and nothing else
\* happens.
C11_AsRangeExactOrError ==
    rg.op = "as_range" =>
        \/ /\ rg.out.ok
           /\ ~rg.out.panic
           /\ 0 <= rg.out.lower
           /\ rg.out.lower <= rg.out.upper
           /\ rg.out.upper <= rg.len
           /\ Num(0, rg.out.lower) = Resolved(rg.range.start, rg.len, 0)
           /\ Num(0, rg.out.upper) = Resolved(rg.range.end, rg.len, rg.len)
        \/ /\ ~rg.out.ok
           /\ ~rg.out.panic
           /\ rg.out.err.e \in {"OutOfTargetRange", "IncompatibleBounds"}

\* whether the position x lies in 0..=len
InTarget(x, len) == NumLe(Num(0, 0), x) /\ NumLe(x, Num(0, len))

\* the range of the positions the bounds of range denote on a target of
\* length len, a negative position written from the back
ResolvedRange(range, len) ==
    LET IndexOf(x) == IF NumLe(x, Num(0, 0 - 1))
                      THEN from_components(TRUE, NumNeg(x))
                      ELSE from_components(FALSE, x)
    IN  [start |-> IndexOf(Resolved(range.start, len, 0)),
         end |-> IndexOf(Resolved(range.end, len, len))]

\* the error the resolution of range against len has to give, NoError if none
ExpectedRangeError(range, len) ==
    IF \/ ~InTarget(Resolved(range.start, len, 0), len)
       \/ ~InTarget(Resolved(range.end, len, len), len)
    THEN OutOfTargetRange(range, ResolvedRange(range, len), len)
    ELSE IF ~NumLe(Resolved(range.start, len, 0), Resolved(range.end, len, len))
    THEN IncompatibleBounds(ResolvedRange(range, len), len)
    ELSE NoError

\* C12: a bound that resolves outside 0..=len gives OutOfTargetRange(given,
\* resolved, 0..len), also when the bounds are mis-ordered as well; two valid
\* bounds with start > end give IncompatibleBounds(resolved, 0..len); slice
\* returns these errors instead of a value.
C12_RangeErrorPrecedence ==
    /\ rg.op = "as_range" =>
          /\ ~rg.out.panic
          /\ rg.out.ok = (ExpectedRangeError(rg.range, rg.len) = NoError)
          /\ rg.out.err = ExpectedRangeError(rg.range, rg.len)
    /\ (rg.op = "slice" /\ ExpectedRangeError(rg.range, rg.len) # NoError) =>
          rg.out = FnErr(ExpectedRangeError(rg.range, rg.len))

\* the rule of a bound: Start(n) and End(n) are valid on len iff n <= len
ValidOn(bound, len) == NumLe(bound.n, Num(0, len))

\* C13: as_usize(len) returns Ok(n) for Start(n) and Ok(len - n) for End(n)
\* iff n <= len, and otherwise OutOfTargetRange with the index, its signed
\* position (n for Start, len - n for End) and len; as_range accepts and
\* rejects each bound that is present by the same rule.
C13_AsUsizeRule ==
    /\ rg.op = "as_usize" =>
          IF ValidOn(rg.range.start, rg.len)
          THEN /\ rg.out.ok
               /\ ~rg.out.panic
               /\ Num(0, rg.out.val) = Resolved(rg.range.start, rg.len, 0)
          ELSE /\ ~rg.out.ok
               /\ ~rg.out.panic
               /\ rg.out.err = IndexOutOfTargetRange(rg.range.start,
                                    Resolved(rg.range.start, rg.len, 0), rg.len)
    /\ rg.op = "as_range" =>
          /\ ~rg.out.panic
          /\ (rg.out.err.e = "OutOfTargetRange")
                = (\/ rg.range.start.some /\ ~ValidOn(rg.range.start, rg.len)
                   \/ rg.range.end.some /\ ~ValidOn(rg.range.end, rg.len))

(***************************************************************************)
(* Properties of -0.                                                       *)
(***************************************************************************)
\* the text of the token the last call lexed
TokenText ==
    Take(trim_start_matches(tk_input),
         Len(trim_start_matches(tk_input)) - Len(tk_res.rest))

\* whether the text of the token ends with the text b
EndsWith(b) ==
    Len(b) <= Len(TokenText) /\ Drop(TokenText, Len(TokenText) - Len(b)) = b

\* End(0), the bound written -0
MinusZero == [some |-> TRUE, back |-> TRUE, n |-> Num(0, 0)]

\* Start(0), the bound written 0
PlusZero == [some |-> TRUE, back |-> FALSE, n |-> Num(0, 0)]

\* C14: -0 stays distinct from 0. A slice bound "-0" is lexed as End(0) and
\* "0" as Start(0); End(0) resolves to len and Start(0) to 0; End(0) is
\* displayed as "-0"; and the displayed text of every slice token the
\* tokenizer produces is lexed back to the same token.
C14_MinusZeroRoundTrips ==
    (tk_called /\ tk_res.st = "ok" /\ tk_res.tok.t = "Slice") =>
        /\ IsPrefix(<<"|", "-", "0", ".">>, TokenText) =>
              /\ tk_res.tok.start = MinusZero
              /\ EolinaIndex_fmt(tk_res.tok.start) = <<"-", "0">>
              /\ \A len \in 0..MaxLen :
                    /\ as_usize(tk_res.tok.start, len).ok
                    /\ as_usize(tk_res.tok.start, len).val = len
                    /\ as_range([start |-> tk_res.tok.start, end |-> NoIndex], len)
                          = RangeRes(TRUE, FALSE, len, len, NoError)
        /\ IsPrefix(<<"|", "0", ".">>, TokenText) =>
              /\ tk_res.tok.start = PlusZero
              /\ EolinaIndex_fmt(tk_res.tok.start) = <<"0">>
              /\ \A len \in 0..MaxLen :
                    /\ as_usize(tk_res.tok.start, len).ok
                    /\ as_usize(tk_res.tok.start, len).val = 0
                    /\ as_range([start |-> tk_res.tok.start, end |-> NoIndex], len)
                          = RangeRes(TRUE, FALSE, 0, len, NoError)
        /\ EndsWith(<<".", "-", "0", "|">>) =>
              /\ tk_res.tok.end = MinusZero
              /\ \A len \in 0..MaxLen :
                    as_range([start |-> NoIndex, end |-> tk_res.tok.end], len)
                        = RangeRes(TRUE, FALSE, 0, len, NoError)
        /\ next_token(Token_fmt(tk_res.tok)).st = "ok"
        /\ next_token(Token_fmt(tk_res.tok)).tok = tk_res.tok
        /\ next_token(Token_fmt(tk_res.tok)).rest = <<>>

\* "|-0.1|" has been lexed, and "|07.-0|" after another token
C14_Witness ==
    /\ tk_called
    /\ tk_res.st = "ok"
    /\ \/ /\ TokenText = <<"|", "-", "0", ".", "1", "|">>
          /\ tk_res.tok.start = MinusZero
       \/ /\ TokenText = <<"|", "0", "7", ".", "-", "0", "|">>
          /\ tk_res.tok.end = MinusZero
          /\ Token_fmt(tk_res.tok) = <<"|", "7", ".", "-", "0", "|">>

(***************************************************************************)
(* Properties of the execution context.                                    *)
(***************************************************************************)
\* the reads of the interactive reader among the I/O calls of log
ReadLines(log) == SelectSeq(log, LAMBDA ev : ev.op = "read_line")

\* the context holds arguments that In has not taken yet
ArgsLeft(this) == this.args.some /\ this.args.vec # <<>>

\* a resume dispatched In and yielded
InStep == cx' # cx /\ cx'.tok.t = "In" /\ cx'.last = "Yielded"

\* C15: every In step pushes exactly one String at the back of the queue.
\* While arguments are left it is the last of them, which is removed, and
\* the reader is not consulted; otherwise it is the line the reader returns.
\* So no line is read while arguments are left.
C15_InTakesArgsBackToFront ==
    [][/\ InStep =>
            /\ Len(values') = Len(values) + 1
            /\ Take(values', Len(values)) = values
            /\ IF ArgsLeft(ctx)
               THEN /\ values'[Len(values')] = String(ctx.args.vec[Len(ctx.args.vec)])
                    /\ ctx'.args.vec = Take(ctx.args.vec, Len(ctx.args.vec) - 1)
                    /\ ReadLines(io') = ReadLines(io)
               ELSE /\ Len(ReadLines(io')) = Len(ReadLines(io)) + 1
                    /\ values'[Len(values')] =
                          String(truncate_newline(ReadLines(io')[Len(ReadLines(io'))].text))
                    /\ ctx'.args = ctx.args
       /\ ReadLines(io') # ReadLines(io) => ~ArgsLeft(ctx)]_vars

\* two arguments were taken, "y" before "x", and then a line was read
C15_Witness ==
    /\ cx.tok.t = "In"
    /\ ctx.args = Args(TRUE, <<>>)
    /\ values = <<String(<<"y">>), String(<<"x">>), String(<<"a", "B">>)>>
    /\ Len(ReadLines(io)) = 1

(***************************************************************************)
(* Properties of the REPL's queue.                                         *)
(***************************************************************************)
\* the REPL read a line in this step
LineRead == repl'.lines # repl.lines

\* the line read is the command that clears the queue
ClearCommand(line) == starts_with(line, "!") /\ command(Tail(line)).clear

\* the resume of this step dispatched a token
Dispatched == repl'.lines = repl.lines /\ ctx'.token_start # ctx.token_start

Count(queue, v) == Cardinality({i \in DOMAIN queue : queue[i] = v})

\* the same values, each as many times
SameValues(a, b) ==
    \A v \in {a[i] : i \in DOMAIN a} \cup {b[i] : i \in DOMAIN b} :
        Count(a, v) = Count(b, v)

\* the token took `take` values from the front and pushed `push` at the back
Arity(take, push) ==
    /\ Len(ex.before) >= take
    /\ Len(values) = Len(ex.before) - take + push
    /\ Take(values, Len(ex.before) - take) = Drop(ex.before, take)

\* the values the token pushed, oldest first
PushedValues(push) == Drop(values, Len(values) - push)

\* the tokens that take one value and push one
OneToOne ==
    {"Join", "Split", "Slice", "Index", "Filter", "Map",
     "IsVowel", "IsConso", "IsUpper", "IsLower"}

\* C17: a token that executed successfully changed the queue by its arity,
\* taking from the front and pushing at the back: In 0:1, Out 1:0, Concat
\* 2:1 with the first value taken as the left operand, Copy 1:2 with two
\* equal values, Rotate keeps the length and the values, the others 1:1;
\* the values not taken keep their order.
C17_TokenArity ==
    (ex.done /\ ex.st = "ok") =>
        CASE ex.token.t = "In" ->
                Arity(0, 1) /\ PushedValues(1)[1].kind = "String"
          [] ex.token.t = "Out" -> Arity(1, 0)
          [] ex.token.t = "Concat" ->
                /\ Arity(2, 1)
                /\ PushedValues(1)[1] =
                      IF ex.before[1].kind = "String"
                      THEN String(ex.before[1].str \o ex.before[2].str)
                      ELSE StringVec(ex.before[1].vec \o ex.before[2].vec)
          [] ex.token.t = "Copy" ->
                Arity(1, 2) /\ PushedValues(2) = <<ex.before[1], ex.before[1]>>
          [] ex.token.t = "Rotate" ->
                Len(values) = Len(ex.before) /\ SameValues(values, ex.before)
          [] ex.token.t \in OneToOne -> Arity(1, 1)

\* Concat joined a String and another String behind it; Copy doubled the
\* first of two values
C17_Witness ==
    /\ ex.done
    /\ ex.st = "ok"
    /\ \/ /\ ex.token.t = "Concat"
          /\ ex.before = <<String(<<"a", "B">>), String(<<>>)>>
          /\ values = <<String(<<"a", "B">>)>>
       \/ /\ ex.token.t = "Copy"
          /\ ex.before = <<Bool(TRUE), String(<<"a", "B">>)>>
          /\ values = <<String(<<"a", "B">>), Bool(TRUE), Bool(TRUE)>>

(***************************************************************************)
(* Properties of the example program.                                      *)
(***************************************************************************)
\* the chars of s that are in set, in their order
Only(s, set) == SelectSeq(s, LAMBDA ch : ch \in set)

\* the lines the program wrote
Printed == SelectSeq(io, LAMBDA ev : ev.op \in {"println", "eprintln"})

\* C18: the program <*[^][_]~> run on an empty queue with one input string
\* of ASCII letters never fails, and when it has completed it has written
\* exactly one line, the upper case letters of the input in their order
\* followed by its lower case letters in their order, and the queue is empty.
C18_ExampleSortsByCase ==
    /\ cx.last \in {"Created", "Yielded", "CompleteOk"}
    /\ cx.last = "CompleteOk" =>
          /\ Len(Printed) = 1
          /\ Printed[1].text = Only(cx.given, {"A", "C"}) \o Only(cx.given, {"b"})
          /\ values = <<>>

\* the run on "AbC" completed and wrote "ACb"
C18_Witness ==
    /\ cx.last = "CompleteOk"
    /\ cx.given = <<"A", "b", "C">>
    /\ Len(Printed) = 1
    /\ Printed[1].text = <<"A", "C", "b">>
    /\ values = <<>>

(***************************************************************************)
(* Properties of concat.                                                   *)
(***************************************************************************)
\* Concat was dispatched on a queue of two values or more
Concatenated == ex.done /\ ex.token.t = "Concat" /\ Len(ex.before) >= 2

\* the kinds of the operands, left and right
ConcatKinds == <<ex.before[1].kind, ex.before[2].kind>>

\* concat returned Ok(val): the value is pushed at the back of the queue
ConcatOk(val) == ex.st = "ok" /\ values # <<>> /\ values[Len(values)] = val

\* concat returned Err(err)
ConcatErr(err) == ex.st = "err" /\ ex.err = err

\* C19: concat(a, b) of two Strings is the String a then b, of two lists the
\* list of a's elements then b's; when a or b is a Bool it is
\* ArgMismatch([String, StringVec], kind of the other operand); a String with
\* a list, in either order, is Mismatch(kind of a, kind of b).
C19_ConcatTable ==
    Concatenated =>
        LET a == ex.before[1]
            b == ex.before[2]
        IN  CASE ConcatKinds = <<"String", "String">> ->
                    ConcatOk(String(a.str \o b.str))
              [] ConcatKinds = <<"StringVec", "StringVec">> ->
                    ConcatOk(StringVec(a.vec \o b.vec))
              [] "Bool" \in {a.kind, b.kind} ->
                    \E other \in {a, b} :
                        /\ {a, b} \ {other} \subseteq {Bool(TRUE), Bool(FALSE)}
                        /\ ConcatErr(ArgMismatch(<<"String", "StringVec">>, other.kind))
              [] OTHER -> ConcatErr(Mismatch(a.kind, b.kind))

\* "c" then "aB" gave "caB", a list and a Bool gave ArgMismatch, a list and
\* a String gave Mismatch
C19_Witness ==
    /\ Concatenated
    /\ \/ /\ Take(ex.before, 2) = <<String(<<"c">>), String(<<"a", "B">>)>>
          /\ ConcatOk(String(<<"c", "a", "B">>))
       \/ /\ Take(ex.before, 2) = <<StringVec(<< <<"c">> >>), Bool(TRUE)>>
          /\ ConcatErr(ArgMismatch(<<"String", "StringVec">>, "StringVec"))
       \/ /\ ConcatKinds = <<"StringVec", "String">>
          /\ ConcatErr(Mismatch("StringVec", "String"))

\* C20 as stated: concat of a String and, to its right, a list returns
\* ArgMismatch([String, StringVec], StringVec).
C20_StringThenListIsArgMismatch ==
    (Concatenated /\ ConcatKinds = <<"String", "StringVec">>) =>
        ConcatErr(ArgMismatch(<<"String", "StringVec">>, "StringVec"))

\* C20 amended: concat of a String and, to its right, a list returns
\* Mismatch(String, StringVec), the kinds of the left and the right operand.
C20_StringThenListIsMismatch ==
    (Concatenated /\ ConcatKinds = <<"String", "StringVec">>) =>
        ConcatErr(Mismatch("String", "StringVec"))

\* concat of "aB" and a list failed and left the queue without them
C20_Witness ==
    /\ Concatenated
    /\ Take(ex.before, 2) = <<String(<<"a", "B">>), StringVec(<< <<"c">> >>)>>
    /\ ex.st = "err"
    /\ values = Drop(ex.before, 2)

(***************************************************************************)
(* Properties of unwrap_len and slice on the kinds of values.              *)
(***************************************************************************)
\* Slice was dispatched on a queue that holds a value
Sliced == ex.done /\ ex.token.t = "Slice" /\ ex.before # <<>>

\* C21: unwrap_len, and with it slice, on a Bool returns ArgMismatch with
\* the expected kinds [String, StringVec] and the actual kind Bool; on a
\* String unwrap_len returns its length, on a list the number of elements.
C21_LenOrArgMismatch ==
    Sliced =>
        LET v == ex.before[1]
        IN  CASE v.kind = "String" -> unwrap_len(v).ok /\ unwrap_len(v).val = Len(v.str)
              [] v.kind = "StringVec" -> unwrap_len(v).ok /\ unwrap_len(v).val = Len(v.vec)
              [] v.kind = "Bool" ->
                    /\ ~unwrap_len(v).ok
                    /\ unwrap_len(v).err = ArgMismatch(<<"String", "StringVec">>, "Bool")
                    /\ ex.st = "err"
                    /\ ex.err = ArgMismatch(<<"String", "StringVec">>, "Bool")

(***************************************************************************)
(* Properties of the Rotate token.                                         *)
(***************************************************************************)
\* the digits that follow the "@" the input starts with
CountDigits ==
    Take(Tail(trim_start_matches(tk_input)),
         PrefixLen(Tail(trim_start_matches(tk_input)), Digits))

\* C22: "@" followed by a run of digits, possibly empty, lexes to
\* Rotate(count) where count is the value of the digits, and 1 when there
\* are no digits or their value is zero.
C22_RotateCountDefaultsToOne ==
    (tk_called /\ starts_with(trim_start_matches(tk_input), "@")) =>
        /\ tk_res.st = "ok"
        /\ tk_res.tok =
              RotateTok(IF CountDigits = <<>> \/ DecVal(CountDigits) = 0
                        THEN 1 ELSE DecVal(CountDigits))

(***************************************************************************)
(* Properties of reused generators.                                        *)
(***************************************************************************)
\* C23: LazyGen and EagerGen over a valid program, driven to Complete(Ok)
\* and then reset: the resumes after the reset yield the pairs of a fresh
\* generator, in order, and then Complete(Ok), without a panic.
C23_ResetAfterCompleteRestarts ==
    eager_st = "ok" =>
        /\ lz.late => YieldsAsFresh(lz)
        /\ eg.late => YieldsAsFresh(eg)

(***************************************************************************)
(* Properties of TokenIter and of stored programs.                         *)
(***************************************************************************)
\* the tokens of the pairs a fresh generator over text yields
FreshTokens(text) == [i \in 1..Len(Fresh(text)) |-> Fresh(text)[i].tok]

\* text is made of valid tokens and nothing else
OnlyTokens(text) ==
    /\ EagerGen_new(text).st = "ok"
    /\ \A i \in DOMAIN text : text[i] \notin AsciiWhitespace

\* C24: on an input of valid tokens only, TokenIter yields the tokens in
\* textual order, each once, its index never decreases, and after the last
\* token next() returns None.
C24_TokenIterYieldsEachTokenOnce ==
    (it.last # "New" /\ OnlyTokens(it.iter.input)) =>
        /\ IsPrefix(it.out, FreshTokens(it.iter.input))
        /\ ~it.back
        /\ it.last \notin {"Err", "Panic"}
        /\ it.out = FreshTokens(it.iter.input) =>
              TokenIter_next(it.iter).k = "None"
        /\ it.last = "None" => it.out = FreshTokens(it.iter.input)

\* C25: when run_exec on a stored program has returned, with Ok or with the
\* error of an instruction, the executor's token iterator is at the first
\* token again and its queue is empty.
C25_RunExecResets ==
    (xr.phase = "stored" /\ xr.ret # "none") =>
        /\ xr.exec.tokens = TokenIter_new(xr.exec.input)
        /\ xr.exec.values = <<>>

(***************************************************************************)
(* Properties of the cursor of EagerGen.                                   *)
(***************************************************************************)
\* C26: under every interleaving of resume and reset on an EagerGen the
\* cursor stays within 0..tokens.len(), no resume panics, and every resume
\* of a completed EagerGen returns Complete(Ok) without yielding: what was
\* yielded since the last reset stays the program's pairs.
C26_EagerCursorInBounds ==
    eager_st = "ok" =>
        /\ eagerGen.yield_at \in 0..Len(eagerGen.tokens)
        /\ eg.last # "Panic"
        /\ eg.done => (eg.last = "CompleteOk" /\ eg.out = Fresh(program))
        /\ Len(eg.out) = eagerGen.yield_at

\* a completed EagerGen over three tokens was resumed again, after a reset
\* and a second pass
C26_Witness ==
    /\ eager_st = "ok"
    /\ eg.stale /\ eg.late /\ eg.done
    /\ eg.last = "CompleteOk"
    /\ eagerGen.yield_at = 3
    /\ Len(eagerGen.tokens) = 3

(***************************************************************************)
(* Properties of the span of the context.                                  *)
(***************************************************************************)
\* C27 as stated: in every reachable state of a Context whose generator was
\* built over its input, token_start + token_len <= len(input).
C27_SpanWithinInput == ctx.token_start + ctx.token_len <= Len(ctx.input)

\* C27 amended: token_start <= len(input) in every reachable state, and
\* while a token is dispatched, which is when get_context is called,
\* token_start + token_len <= len(input); after the dispatch token_len
\* still is the length of that token and token_start lies behind it.
C27_SpanWithinInputWhileDispatched ==
    /\ ctx.token_start <= Len(ctx.input)
    /\ cx.tok.t # "None" =>
          /\ cx.start + cx.len <= Len(ctx.input)
          /\ ctx.token_start = cx.start + cx.len
          /\ ctx.token_len = cx.len

\* the last token of a program of two tokens and more was dispatched: the
\* span was inside the text and token_start now is at its end
C27_Witness ==
    /\ cx.tok.t # "None"
    /\ cx.start > 0
    /\ cx.start + cx.len = Len(ctx.input)
    /\ ctx.token_start = Len(ctx.input)
    /\ ctx.token_len > 0

(***************************************************************************)
(* Properties of the queue after a failed step.                            *)
(***************************************************************************)
\* the errors of the function library
FunctionErrors ==
    {"ArgMismatch", "Mismatch", "OutOfTargetRange", "IncompatibleBounds",
     "IndexOutOfTargetRange"}

\* C28: a step that fails with QueueTooShort leaves the queue as it was; a
\* step whose function fails with ArgMismatch, Mismatch or a range error
\* leaves the queue without the operands it took and pushes nothing.
C28_QueueAfterFailedStep ==
    (ex.done /\ ex.st = "err") =>
        /\ ex.err.e = "QueueTooShort" => values = ex.before
        /\ ex.err.e \in FunctionErrors =>
              /\ Len(ex.before) >= Pops(ex.token)
              /\ values = Drop(ex.before, Pops(ex.token))

\* Concat failed with Mismatch on a String and a list: both operands are
\* gone and nothing was pushed
C28_Witness ==
    /\ ex.done
    /\ ex.st = "err"
    /\ ex.token.t = "Concat"
    /\ ex.err.e = "Mismatch"
    /\ Len(ex.before) >= 2
    /\ values = Drop(ex.before, 2)

(***************************************************************************)
(* Totality of next_token.                                                 *)
(***************************************************************************)
\* C29: next_token returns Ok or a parse error for every input, slice
\* bounds and rotate counts beyond usize included: Empty when the input is
\* empty or whitespace, Unknown with the remaining text otherwise; it never
\* panics.
C29_NextTokenTotal ==
    tk_called =>
        \/ tk_res.st = "ok"
        \/ /\ tk_res.st = "err"
           /\ IF trim_start_matches(tk_input) = <<>>
              THEN tk_res.err = "Empty"
              ELSE /\ tk_res.err = "Unknown"
                   /\ tk_res.text = trim_start_matches(tk_input)

(***************************************************************************)
(* Termination of Context::run.                                            *)
(***************************************************************************)
\* the number of tokens next_token finds in text before its end or an error
RECURSIVE TokenCount(_)
TokenCount(text) ==
    IF next_token(text).st = "ok" THEN 1 + TokenCount(next_token(text).rest) ELSE 0

\* the loop of run() is within its bounds
RunWithinBounds ==
    /\ drv.resumes <= Len(ctx.input) + 1
    /\ drv.executed <= TokenCount(ctx.input)

\* C30: run() reaches the first Complete after at most len(program) + 1
\* resumes, having executed at most as many tokens as the program has.
C30_RunCompletesWithinBounds == <>(drv.done /\ RunWithinBounds)

====
